---- MODULE Spec2Model ----
(***************************************************************************)
(* Background request handling of CodexHelper: the CHAT / CANCEL_CHAT      *)
(* message handlers, the transport retrier (fetchWithRetry), the response  *)
(* mode sniffer (readResponseText) and the event-stream decoder            *)
(* (readSseTextStream), modelled from src/options.js.                      *)
(*                                                                         *)
(* A JavaScript string is modelled as a sequence of one-character strings, *)
(* so that trimming, line splitting, prefix tests, newline normalisation   *)
(* and JSON parsing are computed character by character.                   *)
(***************************************************************************)
EXTENDS Integers, Sequences, FiniteSets, TLC

\* ------------------------------------------------------------------ text

WhiteSpace == {" ", "\n", "\r", "\t"}

\* String.prototype.startsWith
StartsWith(s, p) == Len(s) >= Len(p) /\ SubSeq(s, 1, Len(p)) = p

\* s.slice(i - 1): the text from the (1-based) position i on
DropTo(s, i) == SubSeq(s, i, Len(s))

\* String.prototype.indexOf, 1-based; 0 stands for JavaScript's -1
IndexOf(s, p) ==
    LET hits == {i \in 1..(Len(s) - Len(p) + 1) : SubSeq(s, i, i + Len(p) - 1) = p}
    IN  IF hits = {} THEN 0 ELSE CHOOSE i \in hits : \A j \in hits : i <= j

\* String.prototype.includes
Includes(s, p) == IndexOf(s, p) # 0

RECURSIVE TrimStart(_)
TrimStart(s) ==
    IF s # <<>> /\ Head(s) \in WhiteSpace THEN TrimStart(Tail(s)) ELSE s

RECURSIVE TrimEnd(_)
TrimEnd(s) ==
    IF s # <<>> /\ s[Len(s)] \in WhiteSpace THEN TrimEnd(SubSeq(s, 1, Len(s) - 1)) ELSE s

\* String.prototype.trim
Trim(s) == TrimEnd(TrimStart(s))

RECURSIVE DropCrOfCrLf(_, _, _)
\* the characters lo..hi of s without each "\r" that a "\n" follows
DropCrOfCrLf(s, lo, hi) ==
    IF lo > hi THEN <<>>
    ELSE IF lo = hi
         THEN (IF s[lo] = "\r" /\ lo < Len(s) /\ s[lo + 1] = "\n" THEN <<>> ELSE <<s[lo]>>)
    ELSE LET mid == (lo + hi) \div 2
         IN  DropCrOfCrLf(s, lo, mid) \o DropCrOfCrLf(s, mid + 1, hi)

\* s.replace(/\r\n/g, "\n")
ReplaceCrLf(s) == DropCrOfCrLf(s, 1, Len(s))

\* s.replace(/\r/g, "\n")
ReplaceCr(s) == [i \in 1..Len(s) |-> IF s[i] = "\r" THEN "\n" ELSE s[i]]

\* s.replace(/\r\n/g, "\n").replace(/\r/g, "\n")
NormalizeNewlines(s) == ReplaceCr(ReplaceCrLf(s))

RECURSIVE SplitLines(_)
\* s.split("\n")
SplitLines(s) ==
    LET i == IndexOf(s, <<"\n">>)
    IN  IF i = 0 THEN <<s>>
        ELSE <<SubSeq(s, 1, i - 1)>> \o SplitLines(DropTo(s, i + 1))

RECURSIVE JoinWith(_, _)
\* parts.join(sep)
JoinWith(parts, sep) ==
    IF parts = <<>> THEN <<>>
    ELSE IF Len(parts) = 1 THEN parts[1]
    ELSE parts[1] \o sep \o JoinWith(Tail(parts), sep)

LowerChar(ch) ==
    CASE ch = "A" -> "a" [] ch = "B" -> "b" [] ch = "C" -> "c" [] ch = "D" -> "d"
      [] ch = "E" -> "e" [] ch = "F" -> "f" [] ch = "G" -> "g" [] ch = "H" -> "h"
      [] ch = "I" -> "i" [] ch = "J" -> "j" [] ch = "K" -> "k" [] ch = "L" -> "l"
      [] ch = "M" -> "m" [] ch = "N" -> "n" [] ch = "O" -> "o" [] ch = "P" -> "p"
      [] ch = "Q" -> "q" [] ch = "R" -> "r" [] ch = "S" -> "s" [] ch = "T" -> "t"
      [] ch = "U" -> "u" [] ch = "V" -> "v" [] ch = "W" -> "w" [] ch = "X" -> "x"
      [] ch = "Y" -> "y" [] ch = "Z" -> "z"
      [] OTHER -> ch

\* case folding of a regular expression's /i flag (ASCII letters)
ToLower(s) == [i \in 1..Len(s) |-> LowerChar(s[i])]

\* ------------------------------------------------------------ JS values

\* A JavaScript value: a type tag and a payload.  The payload of a string or
\* number is its text, of an array the sequence of its elements, of an object
\* the sequence of its <<key, value>> members in source order.
Undefined == [t |-> "undefined", v |-> <<>>]
JNull == [t |-> "null", v |-> <<>>]
JStr(s) == [t |-> "string", v |-> s]
JNum(digits) == [t |-> "number", v |-> digits]
JBool(b) == [t |-> "boolean", v |-> IF b THEN <<"t">> ELSE <<>>]
JArr(items) == [t |-> "array", v |-> items]
JObj(members) == [t |-> "object", v |-> members]

\* typeof x === "object" (null included, as in JavaScript)
IsObjectType(x) == x.t \in {"object", "array", "null"}

\* ToBoolean
Truthy(x) ==
    CASE x.t \in {"undefined", "null"} -> FALSE
      [] x.t = "string" -> x.v # <<>>
      [] x.t = "number" -> x.v # <<"0">>
      [] x.t = "boolean" -> x.v # <<>>
      [] OTHER -> TRUE

\* x?.key
Get(x, key) ==
    IF x.t # "object" THEN Undefined
    ELSE LET hits == {i \in 1..Len(x.v) : x.v[i][1] = key}
         IN  IF hits = {} THEN Undefined
             ELSE x.v[CHOOSE i \in hits : \A j \in hits : j <= i][2]

\* x?.[0]
At0(x) ==
    CASE x.t = "array" -> IF x.v = <<>> THEN Undefined ELSE x.v[1]
      [] x.t = "object" -> Get(x, <<"0">>)
      [] x.t = "string" -> IF x.v = <<>> THEN Undefined ELSE JStr(<<x.v[1]>>)
      [] OTHER -> Undefined

\* a ?? b
Coalesce(a, b) == IF a.t \in {"undefined", "null"} THEN b ELSE a

RECURSIVE JsToString(_)
\* String(x)
JsToString(x) ==
    CASE x.t = "string" -> x.v
      [] x.t = "number" -> x.v
      [] x.t = "boolean" ->
            IF x.v # <<>> THEN <<"t", "r", "u", "e">> ELSE <<"f", "a", "l", "s", "e">>
      [] x.t = "null" -> <<"n", "u", "l", "l">>
      [] x.t = "undefined" -> <<"u", "n", "d", "e", "f", "i", "n", "e", "d">>
      [] x.t = "array" ->
            JoinWith([i \in 1..Len(x.v) |->
                        IF x.v[i].t \in {"null", "undefined"} THEN <<>>
                        ELSE JsToString(x.v[i])], <<",">>)
      [] OTHER -> <<"[", "o", "b", "j", "e", "c", "t", " ", "O", "b", "j", "e", "c", "t", "]">>

\* ----------------------------------------------------------- JSON.parse

Digits == {"0", "1", "2", "3", "4", "5", "6", "7", "8", "9"}

ParseFail == [ok |-> FALSE, val |-> Undefined, pos |-> 0]
ParseGood(val, pos) == [ok |-> TRUE, val |-> val, pos |-> pos]

RECURSIVE SkipWs(_, _)
SkipWs(s, i) == IF i <= Len(s) /\ s[i] \in WhiteSpace THEN SkipWs(s, i + 1) ELSE i

RECURSIVE ScanString(_, _)
\* position of the quote closing a string literal, 0 when it is not closed or
\* holds a raw control character (escapes are not part of the modelled subset)
ScanString(s, j) ==
    IF j > Len(s) THEN 0
    ELSE IF s[j] = "\"" THEN j
    ELSE IF s[j] \in {"\n", "\r", "\t", "\\"} THEN 0
    ELSE ScanString(s, j + 1)

RECURSIVE ScanDigits(_, _)
ScanDigits(s, j) == IF j <= Len(s) /\ s[j] \in Digits THEN ScanDigits(s, j + 1) ELSE j

LiteralAt(s, i, lit) ==
    i + Len(lit) - 1 <= Len(s) /\ SubSeq(s, i, i + Len(lit) - 1) = lit

RECURSIVE ParseValue(_, _), ParseMembers(_, _, _), ParseElements(_, _, _)

\* one JSON value starting at position i (objects, arrays, strings without
\* escapes, unsigned integers, true, false, null)
ParseValue(s, i) ==
    IF i > Len(s) THEN ParseFail
    ELSE CASE s[i] = "{" ->
                LET j == SkipWs(s, i + 1)
                IN  IF j <= Len(s) /\ s[j] = "}" THEN ParseGood(JObj(<<>>), j + 1)
                    ELSE ParseMembers(s, j, <<>>)
           [] s[i] = "[" ->
                LET j == SkipWs(s, i + 1)
                IN  IF j <= Len(s) /\ s[j] = "]" THEN ParseGood(JArr(<<>>), j + 1)
                    ELSE ParseElements(s, j, <<>>)
           [] s[i] = "\"" ->
                LET e == ScanString(s, i + 1)
                IN  IF e = 0 THEN ParseFail
                    ELSE ParseGood(JStr(SubSeq(s, i + 1, e - 1)), e + 1)
           [] s[i] \in Digits ->
                LET e == ScanDigits(s, i)
                IN  IF s[i] = "0" /\ e > i + 1 THEN ParseFail
                    ELSE ParseGood(JNum(SubSeq(s, i, e - 1)), e)
           [] LiteralAt(s, i, <<"n", "u", "l", "l">>) -> ParseGood(JNull, i + 4)
           [] LiteralAt(s, i, <<"t", "r", "u", "e">>) -> ParseGood(JBool(TRUE), i + 4)
           [] LiteralAt(s, i, <<"f", "a", "l", "s", "e">>) -> ParseGood(JBool(FALSE), i + 5)
           [] OTHER -> ParseFail

ParseMembers(s, i, acc) ==
    IF i > Len(s) \/ s[i] # "\"" THEN ParseFail
    ELSE LET e == ScanString(s, i + 1)
         IN  IF e = 0 THEN ParseFail
             ELSE LET c == SkipWs(s, e + 1)
                  IN  IF c > Len(s) \/ s[c] # ":" THEN ParseFail
                      ELSE LET r == ParseValue(s, SkipWs(s, c + 1))
                           IN  IF ~r.ok THEN ParseFail
                               ELSE LET n == SkipWs(s, r.pos)
                                        acc2 == Append(acc, <<SubSeq(s, i + 1, e - 1), r.val>>)
                                    IN  IF n > Len(s) THEN ParseFail
                                        ELSE IF s[n] = "}" THEN ParseGood(JObj(acc2), n + 1)
                                        ELSE IF s[n] = ","
                                             THEN ParseMembers(s, SkipWs(s, n + 1), acc2)
                                        ELSE ParseFail

ParseElements(s, i, acc) ==
    LET r == ParseValue(s, i)
    IN  IF ~r.ok THEN ParseFail
        ELSE LET n == SkipWs(s, r.pos)
                 acc2 == Append(acc, r.val)
             IN  IF n > Len(s) THEN ParseFail
                 ELSE IF s[n] = "]" THEN ParseGood(JArr(acc2), n + 1)
                 ELSE IF s[n] = "," THEN ParseElements(s, SkipWs(s, n + 1), acc2)
                 ELSE ParseFail

\* JSON.parse(s): ok = FALSE stands for the SyntaxError it throws
JsonParse(s) ==
    LET r == ParseValue(s, SkipWs(s, 1))
    IN  IF r.ok /\ SkipWs(s, r.pos) = Len(s) + 1
        THEN [ok |-> TRUE, val |-> r.val]
        ELSE [ok |-> FALSE, val |-> Undefined]

RECURSIVE JsonText(_)
\* JSON.stringify(x), the text an upstream sends for the value x
JsonText(x) ==
    CASE x.t = "string" -> <<"\"">> \o x.v \o <<"\"">>
      [] x.t = "number" -> x.v
      [] x.t = "boolean" -> JsToString(x)
      [] x.t = "array" ->
            <<"[">> \o JoinWith([i \in 1..Len(x.v) |-> JsonText(x.v[i])], <<",">>) \o <<"]">>
      [] x.t = "object" ->
            <<"{">> \o JoinWith([i \in 1..Len(x.v) |->
                                   <<"\"">> \o x.v[i][1] \o <<"\"", ":">> \o JsonText(x.v[i][2])],
                                <<",">>) \o <<"}">>
      [] OTHER -> <<"n", "u", "l", "l">>

\* ------------------------------------------------- the program's literals

K_type == <<"t", "y", "p", "e">>
K_response == <<"r", "e", "s", "p", "o", "n", "s", "e">>
K_text == <<"t", "e", "x", "t">>
K_error == <<"e", "r", "r", "o", "r">>
K_message == <<"m", "e", "s", "s", "a", "g", "e">>
K_delta == <<"d", "e", "l", "t", "a">>
K_content == <<"c", "o", "n", "t", "e", "n", "t">>
K_choices == <<"c", "h", "o", "i", "c", "e", "s">>
K_output_text == <<"o", "u", "t", "p", "u", "t", "_", "t", "e", "x", "t">>
K_output == <<"o", "u", "t", "p", "u", "t">>
T_completed ==
    <<"r", "e", "s", "p", "o", "n", "s", "e", ".", "c", "o", "m", "p", "l", "e", "t", "e",
      "d">>
T_text_done ==
    <<"r", "e", "s", "p", "o", "n", "s", "e", ".", "o", "u", "t", "p", "u", "t", "_", "t",
      "e", "x", "t", ".", "d", "o", "n", "e">>
T_error == <<"r", "e", "s", "p", "o", "n", "s", "e", ".", "e", "r", "r", "o", "r">>
T_text_delta ==
    <<"r", "e", "s", "p", "o", "n", "s", "e", ".", "o", "u", "t", "p", "u", "t", "_", "t",
      "e", "x", "t", ".", "d", "e", "l", "t", "a">>
S_data == <<"d", "a", "t", "a", ":">>
S_event == <<"e", "v", "e", "n", "t", ":">>
S_colon == <<":">>
S_nl_data == <<"\n", "d", "a", "t", "a", ":">>
S_nl_event == <<"\n", "e", "v", "e", "n", "t", ":">>
S_DONE == <<"[", "D", "O", "N", "E", "]">>
M_response_error ==
    <<"R", "e", "s", "p", "o", "n", "s", "e", " ", "e", "r", "r", "o", "r", ".">>
M_invalid_json ==
    <<"I", "n", "v", "a", "l", "i", "d", " ", "J", "S", "O", "N", " ", "r", "e", "s", "p",
      "o", "n", "s", "e", " ", "f", "r", "o", "m", " ", "A", "P", "I", ".">>
M_missing_body ==
    <<"M", "i", "s", "s", "i", "n", "g", " ", "r", "e", "s", "p", "o", "n", "s", "e", " ",
      "b", "o", "d", "y", ".">>
M_missing_token ==
    <<"M", "i", "s", "s", "i", "n", "g", " ", "A", "P", "I", " ", "t", "o", "k", "e", "n",
      ".", " ", "S", "e", "t", " ", "i", "t", " ", "i", "n", " ", "O", "p", "t", "i", "o",
      "n", "s", ".">>
M_cancelled == <<"C", "a", "n", "c", "e", "l", "l", "e", "d", ".">>
M_failed_to_fetch ==
    <<"F", "a", "i", "l", "e", "d", " ", "t", "o", " ", "f", "e", "t", "c", "h">>
M_network_error ==
    <<"N", "e", "t", "w", "o", "r", "k", " ", "e", "r", "r", "o", "r", ":", " ", "F", "a",
      "i", "l", "e", "d", " ", "t", "o", " ", "f", "e", "t", "c", "h", " ", "(", "t", "e",
      "m", "p", "o", "r", "a", "r", "y", " ", "c", "o", "n", "n", "e", "c", "t", "i", "o",
      "n", " ", "i", "s", "s", "u", "e", " ", "o", "r", " ", "A", "P", "I", " ", "u", "n",
      "r", "e", "a", "c", "h", "a", "b", "l", "e", ")", ".">>
M_request_failed ==
    <<"R", "e", "q", "u", "e", "s", "t", " ", "f", "a", "i", "l", "e", "d", ".">>
M_http == <<"H", "T", "T", "P", " ">>
N_AbortError == <<"A", "b", "o", "r", "t", "E", "r", "r", "o", "r">>
N_Error == <<"E", "r", "r", "o", "r">>
N_TypeError == <<"T", "y", "p", "e", "E", "r", "r", "o", "r">>
R_aborted == <<"a", "b", "o", "r", "t", "e", "d">>
R_abort == <<"a", "b", "o", "r", "t">>
M_user_aborted ==
    <<"T", "h", "e", " ", "u", "s", "e", "r", " ", "a", "b", "o", "r", "t", "e", "d", " ",
      "a", " ", "r", "e", "q", "u", "e", "s", "t", ".">>
M_network_lost == <<"n", "e", "t", "w", "o", "r", "k", " ", "e", "r", "r", "o", "r">>

\* ------------------------------------------------------- thrown values

\* A thrown value: err.name and err.message
Err(name, message) == [name |-> name, message |-> message]
NoErr == Err(<<>>, <<>>)

\* new Error(message)
NewError(message) == Err(N_Error, message)

\* what an aborted signal makes a pending fetch or body read reject with
AbortErr == Err(N_AbortError, M_user_aborted)

\* String(err) of an Error object: "name: message"
ErrToString(e) == IF e.message = <<>> THEN e.name ELSE e.name \o <<":", " ">> \o e.message

\* -------------------------------------------------- text extraction

RECURSIVE ContentChunks(_)
\* the inner loop of extractResponseText over one item's content entries
ContentChunks(contents) ==
    IF contents = <<>> THEN <<>>
    ELSE LET c == Head(contents)
             text == Get(c, K_text)
             first == IF (Truthy(c) /\ IsObjectType(c))
                         /\ Get(c, K_type) = JStr(K_output_text) /\ text.t = "string"
                      THEN <<text.v>> ELSE <<>>
             second == IF (Truthy(c) /\ IsObjectType(c))
                          /\ Get(c, K_type) = JStr(K_text) /\ text.t = "string"
                       THEN <<text.v>> ELSE <<>>
         IN  first \o second \o ContentChunks(Tail(contents))

RECURSIVE OutputChunks(_)
\* the outer loop of extractResponseText over data.output
OutputChunks(output) ==
    IF output = <<>> THEN <<>>
    ELSE LET content == Get(Head(output), K_content)
             contents == IF content.t = "array" THEN content.v ELSE <<>>
         IN  ContentChunks(contents) \o OutputChunks(Tail(output))

\* extractResponseText looking at choices before output
extractResponseText_choicesFirst(data) ==
    IF ~Truthy(data) \/ ~IsObjectType(data) THEN JStr(<<>>)
    ELSE IF Get(data, K_output_text).t = "string" THEN Get(data, K_output_text)
    ELSE LET out == Get(data, K_output)
             chunks == OutputChunks(IF out.t = "array" THEN out.v ELSE <<>>)
             choice == At0(Get(data, K_choices))
             chosen == Coalesce(Get(Get(choice, K_message), K_content), Get(choice, K_text))
         IN  IF chosen.t \notin {"undefined", "null"} THEN chosen
             ELSE JStr(JoinWith(chunks, <<>>))

\* extractResponseText(data): the JavaScript value it returns
extractResponseText(data) ==
    IF ~Truthy(data) \/ ~IsObjectType(data) THEN JStr(<<>>)
    ELSE IF Get(data, K_output_text).t = "string" THEN Get(data, K_output_text)
    ELSE LET out == Get(data, K_output)
             chunks == OutputChunks(IF out.t = "array" THEN out.v ELSE <<>>)
             choice == At0(Get(data, K_choices))
         IN  IF chunks # <<>> THEN JStr(JoinWith(chunks, <<>>))
             ELSE Coalesce(Get(Get(choice, K_message), K_content),
                           Coalesce(Get(choice, K_text), JStr(<<>>)))

\* extractStreamDelta(payload): always a string
extractStreamDelta(payload) ==
    IF ~Truthy(payload) \/ ~IsObjectType(payload) THEN <<>>
    ELSE IF Get(payload, K_type) = JStr(T_text_delta) /\ Get(payload, K_delta).t = "string"
         THEN Get(payload, K_delta).v
    ELSE LET choiceDelta == Get(At0(Get(payload, K_choices)), K_delta)
             maybeText == Coalesce(Get(Get(payload, K_delta), K_content),
                              Coalesce(Get(choiceDelta, K_content),
                                  Coalesce(Get(choiceDelta, K_text), JStr(<<>>))))
         IN  IF maybeText.t = "string" THEN maybeText.v ELSE <<>>

\* ------------------------------------------------ event-stream decoder

\* The state of one readSseTextStream call: its locals buffer, textChunks,
\* doneText, completedResponse, and the error a flush has thrown, if any.
NewAccumulator(initialBuffer) ==
    [buffer |-> initialBuffer, textChunks |-> <<>>, doneText |-> <<>>,
     completedResponse |-> JNull, thrown |-> FALSE, err |-> NoErr]

RECURSIVE DataLines(_)
\* the lines of a block that start with "data:", prefix cut, left-trimmed
DataLines(lines) ==
    IF lines = <<>> THEN <<>>
    ELSE (IF StartsWith(Head(lines), S_data)
          THEN <<TrimStart(DropTo(Head(lines), 6))>> ELSE <<>>)
         \o DataLines(Tail(lines))

\* the message of the Error a response.error event makes the decoder throw
ErrorEventMessage(payload) ==
    LET msg == Get(Get(payload, K_error), K_message)
    IN  IF msg.t = "string" /\ Trim(msg.v) # <<>> THEN msg.v ELSE M_response_error

\* FlushPayload taking the text of a completed envelope for a chunk as well
FlushPayload_completedAsText(acc, payload) ==
    IF Get(payload, K_type) = JStr(T_completed) /\ Truthy(Get(payload, K_response))
    THEN [acc EXCEPT !.completedResponse = Get(payload, K_response),
                     !.textChunks =
                        IF Truthy(extractResponseText(Get(payload, K_response)))
                        THEN Append(@, JsToString(extractResponseText(Get(payload, K_response))))
                        ELSE @]
    ELSE IF Get(payload, K_type) = JStr(T_text_done) /\ Get(payload, K_text).t = "string"
         THEN [acc EXCEPT !.doneText = Get(payload, K_text).v]
    ELSE IF Get(payload, K_type) = JStr(T_error)
         THEN [acc EXCEPT !.thrown = TRUE, !.err = NewError(ErrorEventMessage(payload))]
    ELSE [acc EXCEPT
            !.textChunks = IF extractStreamDelta(payload) # <<>>
                           THEN Append(@, extractStreamDelta(payload)) ELSE @,
            !.completedResponse =
                IF Truthy(Get(payload, K_response)) /\ IsObjectType(Get(payload, K_response))
                THEN Get(payload, K_response) ELSE @]

\* flushEventBlock from the point where JSON.parse(dataStr) returned payload
FlushPayload(acc, payload) ==
    IF Get(payload, K_type) = JStr(T_completed) /\ Truthy(Get(payload, K_response))
    THEN [acc EXCEPT !.completedResponse = Get(payload, K_response)]
    ELSE IF Get(payload, K_type) = JStr(T_text_done) /\ Get(payload, K_text).t = "string"
         THEN [acc EXCEPT !.doneText = Get(payload, K_text).v]
    ELSE IF Get(payload, K_type) = JStr(T_error)
         THEN [acc EXCEPT !.thrown = TRUE, !.err = NewError(ErrorEventMessage(payload))]
    ELSE [acc EXCEPT
            !.textChunks = IF extractStreamDelta(payload) # <<>>
                           THEN Append(@, extractStreamDelta(payload)) ELSE @,
            !.completedResponse =
                IF Truthy(Get(payload, K_response)) /\ IsObjectType(Get(payload, K_response))
                THEN Get(payload, K_response) ELSE @]

\* FlushData failing the decoding on a payload JSON.parse rejects
FlushData_rawFails(acc, dataStr, parsed) ==
    IF dataStr = <<>> \/ dataStr = S_DONE THEN acc
    ELSE IF ~parsed.ok THEN [acc EXCEPT !.thrown = TRUE, !.err = NewError(M_invalid_json)]
    ELSE FlushPayload(acc, parsed.val)

\* FlushData without the test for the [DONE] sentinel
FlushData_sentinelAsText(acc, dataStr, parsed) ==
    IF dataStr = <<>> THEN acc
    ELSE IF ~parsed.ok THEN [acc EXCEPT !.textChunks = Append(@, dataStr)]
    ELSE FlushPayload(acc, parsed.val)

\* flushEventBlock from the point where dataStr is known; parsed is what
\* JSON.parse(dataStr) gives
FlushData(acc, dataStr, parsed) ==
    IF dataStr = <<>> \/ dataStr = S_DONE THEN acc
    ELSE IF ~parsed.ok THEN [acc EXCEPT !.textChunks = Append(@, dataStr)]
    ELSE FlushPayload(acc, parsed.val)

\* flushEventBlock from the point where the data lines are collected
FlushLines(acc, dataLines) ==
    IF dataLines = <<>> THEN acc
    ELSE FlushData(acc, Trim(JoinWith(dataLines, <<"\n">>)),
                   JsonParse(Trim(JoinWith(dataLines, <<"\n">>))))

\* flushEventBlock(block) on the accumulator acc
flushEventBlock(acc, block) == FlushLines(acc, DataLines(SplitLines(block)))

RECURSIVE DrainBuffer(_)
\* the inner loop of readSseTextStream: flush every complete block of the
\* buffer, stopping where a flush throws
DrainBuffer(acc) ==
    LET sepIndex == IndexOf(acc.buffer, <<"\n", "\n">>)
        block == SubSeq(acc.buffer, 1, sepIndex - 1)
        flushed == flushEventBlock([acc EXCEPT !.buffer = DropTo(@, sepIndex + 2)], block)
    IN  IF acc.thrown \/ sepIndex = 0 THEN acc
        ELSE DrainBuffer(flushed)

\* readSseTextStream, one pass of the outer loop after read() gave a chunk
SseChunk(acc, value) ==
    DrainBuffer([acc EXCEPT !.buffer = @ \o NormalizeNewlines(value)])

\* SseTail leaving the unterminated rest of the buffer unflushed
SseTail_dropped(acc) == acc

\* readSseTextStream after read() reported done: the flush of the rest
SseTail(acc) ==
    IF Trim(acc.buffer) # <<>> THEN flushEventBlock(acc, acc.buffer) ELSE acc

\* ResolveText preferring a done-text whatever its length
ResolveText_doneFirst(acc) ==
    LET streamedText == JoinWith(acc.textChunks, <<>>)
        doneText == acc.doneText
        completedText == extractResponseText(acc.completedResponse)
    IN  IF Trim(doneText) # <<>> THEN doneText
        ELSE IF Trim(streamedText) # <<>> THEN streamedText
        ELSE IF Truthy(completedText) THEN JsToString(completedText) ELSE <<>>

\* ResolveText testing its texts for emptiness without trimming them
ResolveText_untrimmed(acc) ==
    LET streamedText == JoinWith(acc.textChunks, <<>>)
        doneText == acc.doneText
        completedText == extractResponseText(acc.completedResponse)
    IN  IF doneText # <<>> /\ Len(doneText) >= Len(streamedText) THEN doneText
        ELSE IF streamedText # <<>> THEN streamedText
        ELSE IF doneText # <<>> THEN doneText
        ELSE IF Truthy(completedText) THEN JsToString(completedText) ELSE <<>>

\* the text readSseTextStream returns for a drained accumulator
ResolveText(acc) ==
    LET streamedText == JoinWith(acc.textChunks, <<>>)
        doneText == acc.doneText
        completedText == extractResponseText(acc.completedResponse)
    IN  IF Trim(doneText) # <<>> /\ Len(doneText) >= Len(streamedText) THEN doneText
        ELSE IF Trim(streamedText) # <<>> THEN streamedText
        ELSE IF Trim(doneText) # <<>> THEN doneText
        ELSE IF Truthy(completedText) THEN JsToString(completedText) ELSE <<>>

\* ------------------------------------------------- response mode sniffer

\* looksLikeJson of readResponseText, of the normalised first chunk
LooksLikeJson(normalizedFirst) ==
    LET trimmed == TrimStart(normalizedFirst)
    IN  StartsWith(trimmed, <<"{">>) \/ StartsWith(trimmed, <<"[">>)

\* looksLikeSse of readResponseText, of the normalised first chunk
LooksLikeSse(normalizedFirst) ==
    LET trimmed == TrimStart(normalizedFirst)
    IN  \/ StartsWith(trimmed, S_data)
        \/ StartsWith(trimmed, S_event)
        \/ StartsWith(trimmed, S_colon)
        \/ Includes(normalizedFirst, S_nl_data)
        \/ Includes(normalizedFirst, S_nl_event)

\* ------------------------------------------------------ response reader

\* The locals of one readResponseText call between two reads of the body:
\* mode is where it awaits ("first": the first read, "sse": a read inside
\* readSseTextStream, "json": a read of the whole-document loop).
NewReader ==
    [mode |-> "first", acc |-> NewAccumulator(<<>>), all |-> <<>>,
     normalizedFirst |-> <<>>, looksLikeSse |-> FALSE, looksLikeJson |-> FALSE]

\* What a reader does with one settled read: await the next read, return a
\* value to the handler, or throw.
Await(rd) == [kind |-> "await", rd |-> rd, val |-> Undefined, err |-> NoErr]
Return(rd, val) == [kind |-> "return", rd |-> rd, val |-> val, err |-> NoErr]
Throw(rd, e) == [kind |-> "throw", rd |-> rd, val |-> Undefined, err |-> e]

\* readSseTextStream at its end, `last` being the accumulator after the
\* flush of the unterminated rest
SseResolve(rd, last) ==
    IF last.thrown THEN Throw([rd EXCEPT !.acc = last], last.err)
    ELSE Return([rd EXCEPT !.acc = last], JStr(ResolveText(last)))

\* readSseTextStream after its inner loop left the accumulator acc: a thrown
\* error propagates, else the next read() is awaited, or has reported done
SseNext(rd, acc, done) ==
    IF acc.thrown THEN Throw([rd EXCEPT !.acc = acc], acc.err)
    ELSE IF done THEN SseResolve(rd, SseTail(acc))
    ELSE Await([rd EXCEPT !.acc = acc])

\* JsonParsed swallowing the failure of JSON.parse and extracting from nothing
JsonParsed_lenient(rd, parsed) ==
    IF ~parsed.ok THEN Return(rd, extractResponseText(Undefined))
    ELSE Return(rd, extractResponseText(parsed.val))

\* readResponseText from the point where JSON.parse(all) gave `parsed`
JsonParsed(rd, parsed) ==
    IF ~parsed.ok THEN Throw(rd, NewError(M_invalid_json))
    ELSE Return(rd, extractResponseText(parsed.val))

\* JsonDone taking a blank body for a document without text
JsonDone_blankIsEmpty(rd) ==
    IF Trim(rd.all) = <<>> THEN Return(rd, JStr(<<>>))
    ELSE IF rd.looksLikeSse /\ ~rd.looksLikeJson
    THEN SseNext(rd, SseChunk(NewAccumulator(<<>>), rd.all), TRUE)
    ELSE JsonParsed(rd, JsonParse(rd.all))

\* readResponseText once the whole body is in `all`: readSseTextStream over
\* a one-chunk reader of the buffered body, or JSON.parse
JsonDone(rd) ==
    IF rd.looksLikeSse /\ ~rd.looksLikeJson
    THEN SseNext(rd, SseChunk(NewAccumulator(<<>>), rd.all), TRUE)
    ELSE JsonParsed(rd, JsonParse(rd.all))

\* Sniffed letting an event-stream signal win over a JSON opener
Sniffed_signalFirst(rd, done, normalizedFirst) ==
    IF ~done /\ rd.looksLikeSse
    THEN SseNext([rd EXCEPT !.mode = "sse"], DrainBuffer(NewAccumulator(normalizedFirst)), FALSE)
    ELSE IF ~done THEN Await([rd EXCEPT !.mode = "json", !.all = normalizedFirst])
    ELSE JsonDone([rd EXCEPT !.mode = "json", !.all = normalizedFirst])

\* readResponseText after its first read, whose normalised chunk is
\* normalizedFirst: the sniff, then readSseTextStream or the whole-document loop
Sniffed(rd, done, normalizedFirst) ==
    IF ~done /\ rd.looksLikeSse /\ ~rd.looksLikeJson
    THEN SseNext([rd EXCEPT !.mode = "sse"], DrainBuffer(NewAccumulator(normalizedFirst)), FALSE)
    ELSE IF ~done THEN Await([rd EXCEPT !.mode = "json", !.all = normalizedFirst])
    ELSE JsonDone([rd EXCEPT !.mode = "json", !.all = normalizedFirst])

\* readResponseText from its first read: done with no value, or a chunk
FirstRead(done, normalizedFirst) ==
    Sniffed([NewReader EXCEPT !.normalizedFirst = normalizedFirst,
                              !.looksLikeSse = LooksLikeSse(normalizedFirst),
                              !.looksLikeJson = LooksLikeJson(normalizedFirst)],
            done, normalizedFirst)

\* the continuation of the reader rd when its pending read() settles
ReadSettled(rd, done, value) ==
    CASE rd.mode = "first" -> FirstRead(done, NormalizeNewlines(IF done THEN <<>> ELSE value))
      [] rd.mode = "sse" ->
            IF done THEN SseResolve(rd, SseTail(rd.acc))
            ELSE SseNext(rd, SseChunk(rd.acc, value), FALSE)
      [] OTHER ->
            IF done THEN JsonDone(rd)
            ELSE Await([rd EXCEPT !.all = @ \o value])

RECURSIVE ReadChunks(_, _)
\* readResponseText from the reader rd on, the body delivering `chunks`
ReadFrom(step, chunks) ==
    IF step.kind = "await" THEN ReadChunks(step.rd, Tail(chunks)) ELSE step

ReadChunks(rd, chunks) ==
    ReadFrom(ReadSettled(rd, chunks = <<>>, IF chunks = <<>> THEN <<>> ELSE Head(chunks)),
             chunks)

\* readResponseText(res) for a body delivered as the chunks given, read to
\* its end without interruption
readResponseText(chunks) == ReadChunks(NewReader, chunks)

\* ------------------------------------------------------ outbound request

K_role == <<"r", "o", "l", "e">>
V_assistant == <<"a", "s", "s", "i", "s", "t", "a", "n", "t">>
V_user == <<"u", "s", "e", "r">>
V_input_text == <<"i", "n", "p", "u", "t", "_", "t", "e", "x", "t">>
S_Bearer == <<"B", "e", "a", "r", "e", "r", " ">>
R_bearer_s == <<"b", "e", "a", "r", "e", "r", "\\", "s">>

\* /^Bearer\\s+/i.test(t) of buildAuthHeaders: in the source of the regular
\* expression the backslash is escaped, so after "Bearer" it wants a backslash
\* and one or more letters s
BearerTest(t) == StartsWith(ToLower(t), R_bearer_s)

\* buildAuthHeaders(token).Authorization, Undefined when the header is absent
buildAuthHeaders(token) ==
    LET t == Trim(token)
    IN  IF t = <<>> THEN Undefined
        ELSE IF BearerTest(t) THEN JStr(t)
        ELSE JStr(S_Bearer \o t)

\* what toResponsesInput maps one message to
ResponsesInputItem(m) ==
    JObj(<< <<K_role, Get(m, K_role)>>,
            <<K_content,
              JArr(<< JObj(<< <<K_type, JStr(IF Get(m, K_role) = JStr(V_assistant)
                                             THEN K_output_text ELSE V_input_text)>>,
                              <<K_text, JStr(IF Truthy(Get(m, K_content))
                                             THEN JsToString(Get(m, K_content))
                                             ELSE <<>>)>> >>) >>)>> >>)

RECURSIVE InputItems(_)
\* the filter and the map of toResponsesInput over the items of an array
InputItems(arr) ==
    IF arr = <<>> THEN <<>>
    ELSE (IF Truthy(Head(arr)) /\ IsObjectType(Head(arr))
          THEN <<ResponsesInputItem(Head(arr))>> ELSE <<>>) \o InputItems(Tail(arr))

\* toResponsesInput(messages): a new array; messages is only read
toResponsesInput(messages) ==
    JArr(InputItems(IF messages.t = "array" THEN messages.v ELSE <<>>))

\* What the handler gives fetch besides the constant parts of the request:
\* the Authorization header and the input of the body
Request(url, authorization, input) ==
    [url |-> url, authorization |-> authorization, input |-> input]
NoRequest == Request(<<>>, Undefined, Undefined)

\* -------------------------------------------------------- configuration

DEFAULT_API_URL ==
    <<"h", "t", "t", "p", "s", ":", "/", "/", "a", "p", "i", ".", "o", "p", "e", "n", "a",
      "i", ".", "c", "o", "m", "/", "v", "1", "/", "r", "e", "s", "p", "o", "n", "s", "e",
      "s">>
S_https_protocol == <<"h", "t", "t", "p", "s", ":">>
M_missing_api_url ==
    <<"M", "i", "s", "s", "i", "n", "g", " ", "A", "P", "I", " ", "U", "R", "L", " ", "(",
      "i", "n", "t", "e", "r", "n", "a", "l", " ", "e", "r", "r", "o", "r", ")", ".">>

\* the characters of a URL scheme after its first letter, in lower case
SchemeChars ==
    {"a", "b", "c", "d", "e", "f", "g", "h", "i", "j", "k", "l", "m"}
        \cup {"n", "o", "p", "q", "r", "s", "t", "u", "v", "w", "x", "y", "z"}
        \cup {"0", "1", "2", "3", "4", "5", "6", "7", "8", "9", "+", "-", "."}

\* the schemes the URL parser gives an authority to
SpecialSchemes ==
    {<<"h", "t", "t", "p", "s">>, <<"h", "t", "t", "p">>, <<"f", "t", "p">>,
     <<"w", "s">>, <<"w", "s", "s">>, <<"f", "i", "l", "e">>}

\* characters that end the host of a URL, and characters a host cannot hold
HostEnds == {"/", "\\", "?", "#"}
ForbiddenHostChars == {" ", "<", ">", "[", "]", "^", "|", "%", "@", ":"}

\* a scheme: a letter, then letters, digits, "+", "-" or "."
IsScheme(scheme) ==
    /\ scheme # <<>>
    /\ scheme[1] \in SchemeChars \ {"0", "1", "2", "3", "4", "5", "6", "7", "8", "9", "+", "-", "."}
    /\ \A i \in 1..Len(scheme) : scheme[i] \in SchemeChars

RECURSIVE SkipSlashes(_)
\* the text after the slashes and backslashes that follow a special scheme
SkipSlashes(s) ==
    IF s # <<>> /\ Head(s) \in {"/", "\\"} THEN SkipSlashes(Tail(s)) ELSE s

\* the position of the first character of s that is in `ends`, or Len(s) + 1
FirstOf(s, ends) ==
    LET hits == {i \in 1..Len(s) : s[i] \in ends}
    IN  IF hits = {} THEN Len(s) + 1 ELSE CHOOSE i \in hits : \A j \in hits : i <= j

\* the path, query and fragment of a special URL as serialised: the path is
\* "/" when absent, and its backslashes are slashes
UrlTail(tail) ==
    IF tail = <<>> \/ Head(tail) \in {"?", "#"} THEN <<"/">> \o tail
    ELSE [i \in 1..Len(tail) |->
            IF tail[i] = "\\" /\ i < FirstOf(tail, {"?", "#"}) THEN "/" ELSE tail[i]]

\* new URL(raw) without a base, for a trimmed text without userinfo, port,
\* dot segments or characters to escape: whether it parses, its protocol and
\* its serialisation
UrlThrows == [ok |-> FALSE, protocol |-> <<>>, href |-> <<>>]
ParseSpecial(scheme, authority) ==
    LET hostEnd == FirstOf(authority, HostEnds)
        host == ToLower(SubSeq(authority, 1, hostEnd - 1))
    IN  IF host = <<>> \/ \E i \in 1..Len(host) : host[i] \in ForbiddenHostChars
        THEN UrlThrows
        ELSE [ok |-> TRUE, protocol |-> scheme \o <<":">>,
              href |-> scheme \o <<":", "/", "/">> \o host
                            \o UrlTail(DropTo(authority, hostEnd))]
ParseUrl(raw) ==
    LET colon == IndexOf(raw, <<":">>)
        scheme == ToLower(SubSeq(raw, 1, colon - 1))
    IN  IF colon = 0 \/ ~IsScheme(scheme) THEN UrlThrows
        ELSE IF scheme \in SpecialSchemes
        THEN ParseSpecial(scheme, SkipSlashes(DropTo(raw, colon + 1)))
        ELSE [ok |-> TRUE, protocol |-> scheme \o <<":">>,
              href |-> scheme \o DropTo(raw, colon)]

\* normalizeApiUrl accepting a URL of any scheme
normalizeApiUrl_anyScheme(value) ==
    LET raw == Trim(IF Truthy(value) THEN JsToString(value) ELSE <<>>)
    IN  IF raw = <<>> THEN DEFAULT_API_URL
        ELSE IF ~ParseUrl(raw).ok THEN DEFAULT_API_URL
        ELSE ParseUrl(raw).href

\* normalizeApiUrl(value)
normalizeApiUrl(value) ==
    LET raw == Trim(IF Truthy(value) THEN JsToString(value) ELSE <<>>)
    IN  IF raw = <<>> THEN DEFAULT_API_URL
        ELSE IF ~ParseUrl(raw).ok THEN DEFAULT_API_URL
        ELSE IF ParseUrl(raw).protocol # S_https_protocol THEN DEFAULT_API_URL
        ELSE ParseUrl(raw).href

DEFAULT_MODEL == <<"g", "p", "t", "-", "5", ".", "2">>
M_missing_model ==
    <<"M", "i", "s", "s", "i", "n", "g", " ", "m", "o", "d", "e", "l", ".", " ", "S", "e",
      "t", " ", "i", "t", " ", "i", "n", " ", "O", "p", "t", "i", "o", "n", "s", ".">>

\* The object saved under CONFIG_KEY: apiUrl and model are JavaScript values
\* (undefined when nothing was saved), token a string; no model saved here
Saved(apiUrl, token) == [apiUrl |-> apiUrl, token |-> token, model |-> Undefined]

\* loadConfig(), from the saved object: the fields the CHAT handler uses
loadConfig(saved) ==
    [apiUrl |-> normalizeApiUrl(saved.apiUrl),
     token |-> saved.token,
     model |-> IF saved.model.t = "string" /\ Trim(saved.model.v) # <<>>
               THEN Trim(saved.model.v) ELSE DEFAULT_MODEL]

\* the object saveConfig(nextConfig) stores, `saved` being what it loaded
saveConfig(saved, nextConfig) ==
    [Saved(IF nextConfig.apiUrl.t = "string"
           THEN JStr(normalizeApiUrl(nextConfig.apiUrl))
           ELSE JStr(loadConfig(saved).apiUrl),
           IF nextConfig.token.t = "string" THEN nextConfig.token.v
           ELSE loadConfig(saved).token)
        EXCEPT !.model = IF nextConfig.model.t = "string" THEN nextConfig.model
                         ELSE JStr(loadConfig(saved).model)]

\* ------------------------------------------------------------ handlers

\* Bounds of the model
NumCalls == 2
MaxRetries == 2
MaxChunks == 2

\* fetchWithRetry's defaults: { retries = 1, retryDelayMs = 350 }
DefaultRetries == 1
DefaultRetryDelayMs == 350

VARIABLES
    config,         \* the configuration object saved in chrome.storage.sync
    inflightChats,  \* the Map of <<requestId, AbortController>> entries (a controller is named by its call)
    calls,          \* the invocations of the CHAT handler's async function
    cancelReply,    \* what the latest CANCEL_CHAT passed to sendResponse
    panel           \* the page panel of the content script: its variables and its handlers in progress

vars == <<config, inflightChats, calls, cancelReply, panel>>

Calls == DOMAIN calls

\* What sendResponse is given
Ok(content) == [ok |-> TRUE, cancelled |-> FALSE, content |-> content, error |-> <<>>]
Failed(message) == [ok |-> FALSE, cancelled |-> FALSE, content |-> <<>>, error |-> message]
Cancelled == [ok |-> FALSE, cancelled |-> TRUE, content |-> <<>>, error |-> M_cancelled]
NoResponse == [ok |-> FALSE, cancelled |-> FALSE, content |-> <<>>, error |-> <<>>]

\* An HTTP response as fetch resolves it: res.ok, res.status, res.statusText,
\* whether res.body is non-null, and the text its body has still to deliver
Response(ok, status, statusText, hasBody, body) ==
    [ok |-> ok, status |-> status, statusText |-> statusText,
     hasBody |-> hasBody, body |-> body]
NoRes == Response(FALSE, <<>>, <<>>, FALSE, <<>>)

\* One invocation of the CHAT handler's async function.  pc is the await it
\* is suspended at.  The fields after `responses` record its history: the
\* retries it gave fetchWithRetry, its calls of fetch, the failures and the
\* delays of its attempts, the stage a CANCEL_CHAT found it at, how often an
\* entry holding its controller was removed from inflightChats, the whole
\* body of the response it received, the chunks it has read of it, the
\* conversation its message carried, and how the read of the body ended
\* ("text": res.text() resolved, "return": readResponseText returned
\* `content`, "throw": it threw).
IdleCall ==
    [pc |-> "idle", requestId |-> <<>>, aborted |-> FALSE,
     attempt |-> 0, attemptCount |-> 0, retryDelayMs |-> 0, lastError |-> NoErr,
     messages |-> Undefined, request |-> NoRequest,
     res |-> NoRes, rd |-> NewReader,
     response |-> NoResponse, responses |-> 0,
     retries |-> 0, fetches |-> 0, failures |-> <<>>, delays |-> <<>>,
     cancelledAt |-> "none", removals |-> 0, body |-> <<>>, chunksRead |-> 0,
     conversation |-> Undefined, readEnd |-> "none", content |-> Undefined]

InFlight(c) == calls[c].pc \notin {"idle", "done"}
Resolved(c) == calls[c].pc = "done"

\* makeRequestId(): an identifier no message carries and no other call gets
makeRequestId(c) == <<"#">> \o (IF c = 1 THEN <<"1">> ELSE IF c = 2 THEN <<"2">> ELSE <<"3">>)

\* inflightChats.has / get / set / delete
MapHas(m, key) == \E e \in m : e[1] = key
MapGet(m, key) == (CHOOSE e \in m : e[1] = key)[2]
MapSet(m, key, c) == {e \in m : e[1] # key} \cup {<<key, c>>}
\* a delete that empties the map
MapDelete_clear(m, key) == {}
MapDelete(m, key) == {e \in m : e[1] # key}

\* The requestId the CHAT handler registers for message.requestId = rid
ChatKey(rid, c) ==
    IF rid.t = "string" /\ Trim(rid.v) # <<>> THEN Trim(rid.v) ELSE makeRequestId(c)

\* The requestId the CANCEL_CHAT handler looks up for message.requestId = rid
CancelKey(rid) == IF rid.t = "string" THEN rid.v ELSE <<>>

\* attemptCount of fetchWithRetry
AttemptCount(retries) == (IF retries > 0 THEN retries ELSE 0) + 1

\* RetryDelay without the backoff: the same delay after every failure
RetryDelay_flat(retryDelayMs, attempt) == retryDelayMs

\* the delay fetchWithRetry sleeps after the failure of attempt (0-based)
RetryDelay(retryDelayMs, attempt) == retryDelayMs * (attempt + 1)

\* BudgetExhausted comparing the attempt's index, not its number, with the count
BudgetExhausted_late(attempt, attemptCount) == attempt >= attemptCount

\* whether fetchWithRetry gives up after the failure of attempt (0-based)
BudgetExhausted(attempt, attemptCount) == attempt + 1 >= attemptCount

\* The third argument of fetchWithRetry with its defaults applied; the CHAT
\* handler passes none
Budget(retries, retryDelayMs) == [retries |-> retries, retryDelayMs |-> retryDelayMs]
DefaultBudget == Budget(DefaultRetries, DefaultRetryDelayMs)

\* isAbort of the CHAT handler's catch block
IsAbort(e) ==
    \/ e.name = N_AbortError
    \/ Includes(ToLower(e.message), R_aborted)
    \/ Includes(ToLower(ErrToString(e)), R_abort)

\* what the CHAT handler's catch block passes to sendResponse
CatchResponse(e) ==
    LET rawMsg == IF e.message # <<>> THEN e.message ELSE ErrToString(e)
        msg == IF rawMsg = M_failed_to_fetch THEN M_network_error ELSE rawMsg
    IN  IF IsAbort(e) THEN Cancelled
        ELSE Failed(IF msg # <<>> THEN msg ELSE M_request_failed)

\* what the CHAT handler passes to sendResponse for a non-ok response whose
\* body text is `text`; maybe is what JSON.parse(text) gives
\* HttpErrorParsed taking any non-empty error.message, blank or not
HttpErrorParsed_blankMessage(res, text, maybe) ==
    IF maybe.ok /\ Get(Get(maybe.val, K_error), K_message).t = "string"
                /\ Get(Get(maybe.val, K_error), K_message).v # <<>>
    THEN Failed(M_http \o res.status \o <<":", " ">> \o Get(Get(maybe.val, K_error), K_message).v)
    ELSE Failed(M_http \o res.status \o <<":", " ">>
                \o (IF text # <<>> THEN text ELSE res.statusText))

HttpErrorParsed(res, text, maybe) ==
    IF maybe.ok /\ Get(Get(maybe.val, K_error), K_message).t = "string"
                /\ Trim(Get(Get(maybe.val, K_error), K_message).v) # <<>>
    THEN Failed(M_http \o res.status \o <<":", " ">> \o Get(Get(maybe.val, K_error), K_message).v)
    ELSE Failed(M_http \o res.status \o <<":", " ">>
                \o (IF text # <<>> THEN text ELSE res.statusText))

HttpErrorResponse(res, text) == HttpErrorParsed(res, text, JsonParse(text))

\* OkResponse treating an empty text as a failure
OkResponse_failsEmpty(content) ==
    IF Truthy(content) THEN Ok(JsToString(content)) ELSE Failed(M_request_failed)

\* what the CHAT handler passes to sendResponse for the value readResponseText
\* returned: String(content || "")
OkResponse(content) == Ok(IF Truthy(content) THEN JsToString(content) ELSE <<>>)

\* the calls after inflightChats.delete(key): the call whose controller the
\* entry held, if there was one, has lost its entry
EntryRemoved(cs, key) ==
    [d \in DOMAIN cs |->
        IF <<key, d>> \in inflightChats THEN [cs[d] EXCEPT !.removals = @ + 1] ELSE cs[d]]

\* Finish without the finally block's inflightChats.delete
Finish_keepsEntry(c, call, r) ==
    /\ calls' = [calls EXCEPT ![c] = [call EXCEPT !.pc = "done", !.response = r,
                                                  !.responses = @ + 1]]
    /\ inflightChats' = inflightChats

\* Finish with a finally block that deletes the entry only while it holds
\* the call's own controller
Finish_ownEntry(c, call, r) ==
    /\ calls' = [calls EXCEPT ![c] =
                    [call EXCEPT !.pc = "done", !.response = r, !.responses = @ + 1,
                                 !.removals = IF <<call.requestId, c>> \in inflightChats
                                              THEN @ + 1 ELSE @]]
    /\ inflightChats' = inflightChats \ {<<call.requestId, c>>}

\* sendResponse(r), then the finally block: the call, whose record is now
\* `call`, is over
Finish(c, call, r) ==
    /\ calls' = EntryRemoved([calls EXCEPT ![c] =
                                [call EXCEPT !.pc = "done", !.response = r,
                                             !.responses = @ + 1]],
                             call.requestId)
    /\ inflightChats' = MapDelete(inflightChats, call.requestId)

\* the stage a call is suspended at
Stage(c) == IF calls[c].pc = "read" THEN calls[c].rd.mode ELSE calls[c].pc

\* ------------------------------------------------------------- actions

\* fetch(url, options) in fetchWithRetry's loop body, by the call whose
\* record is now `call`: a signal that is already aborted makes fetch reject
\* at once, which fetchWithRetry rethrows to the handler's catch block
BeginAttempt(c, call) ==
    LET issued == [call EXCEPT !.fetches = @ + 1]
    IN  IF call.aborted THEN Finish(c, issued, CatchResponse(AbortErr))
        ELSE /\ calls' = [calls EXCEPT ![c] = [issued EXCEPT !.pc = "fetch"]]
             /\ UNCHANGED inflightChats

\* A CHAT message with message.requestId = rid and message.messages =
\* messages arrives: the handler registers a controller and awaits
\* loadConfig().  `unique` states the callers' duty that no two calls in
\* flight carry the same identifier.
ChatWith(c, rid, messages, unique) ==
    LET key == ChatKey(rid, c)
    IN  /\ calls[c].pc = "idle"
        /\ \A d \in Calls : d < c => calls[d].pc # "idle"
        /\ unique => \A d \in Calls : InFlight(d) => calls[d].requestId # key
        /\ inflightChats' = MapSet(inflightChats, key, c)
        /\ calls' = [calls EXCEPT ![c] = [@ EXCEPT !.pc = "config", !.requestId = key,
                                                   !.messages = messages,
                                                   !.conversation = messages]]
        /\ UNCHANGED <<config, cancelReply, panel>>

\* A CHAT message that carries no conversation
Chat(c, rid, unique) == ChatWith(c, rid, Undefined, unique)

\* ConfigLoaded without the check of the token
ConfigLoaded_tokenUnchecked(c, budget) ==
    /\ calls[c].pc = "config"
    /\ IF Trim(loadConfig(config).apiUrl) = <<>>
       THEN Finish(c, calls[c], CatchResponse(NewError(M_missing_api_url)))
       ELSE IF loadConfig(config).model = <<>>
       THEN Finish(c, calls[c], CatchResponse(NewError(M_missing_model)))
       ELSE BeginAttempt(c, [calls[c] EXCEPT !.request = Request(Trim(loadConfig(config).apiUrl),
                                                                 buildAuthHeaders(loadConfig(config).token),
                                                                 toResponsesInput(calls[c].messages)),
                                             !.attempt = 0,
                                             !.attemptCount = AttemptCount(budget.retries),
                                             !.retryDelayMs = budget.retryDelayMs,
                                             !.retries = budget.retries])
    /\ UNCHANGED <<config, cancelReply, panel>>

\* loadConfig() resolves: the configuration checks, then fetchWithRetry's
\* first attempt (model is never empty: loadConfig defaults it)
ConfigLoaded(c, budget) ==
    /\ calls[c].pc = "config"
    /\ IF Trim(loadConfig(config).apiUrl) = <<>>
       THEN Finish(c, calls[c], CatchResponse(NewError(M_missing_api_url)))
       ELSE IF loadConfig(config).token = <<>>
       THEN Finish(c, calls[c], CatchResponse(NewError(M_missing_token)))
       ELSE IF loadConfig(config).model = <<>>
       THEN Finish(c, calls[c], CatchResponse(NewError(M_missing_model)))
       ELSE BeginAttempt(c, [calls[c] EXCEPT !.request = Request(Trim(loadConfig(config).apiUrl),
                                                                 buildAuthHeaders(loadConfig(config).token),
                                                                 toResponsesInput(calls[c].messages)),
                                             !.attempt = 0,
                                             !.attemptCount = AttemptCount(budget.retries),
                                             !.retryDelayMs = budget.retryDelayMs,
                                             !.retries = budget.retries])
    /\ UNCHANGED <<config, cancelReply, panel>>

\* The pending fetch rejects with the transport failure e: the catch block of
\* fetchWithRetry
FetchRejects(c, e) ==
    /\ calls[c].pc = "fetch"
    /\ ~calls[c].aborted
    /\ LET call == [calls[c] EXCEPT !.failures = Append(@, e)]
           kept == [call EXCEPT !.lastError = e]
       IN  IF call.aborted \/ e.name = N_AbortError THEN Finish(c, call, CatchResponse(e))
           ELSE IF BudgetExhausted(kept.attempt, kept.attemptCount)
                THEN Finish(c, kept, CatchResponse(kept.lastError))
           ELSE /\ calls' = [calls EXCEPT ![c] =
                               [kept EXCEPT !.pc = "sleep",
                                            !.delays = Append(@, RetryDelay(kept.retryDelayMs,
                                                                            kept.attempt))]]
                /\ UNCHANGED inflightChats
    /\ UNCHANGED <<config, cancelReply, panel>>

\* SleepDone for a sleep that never ends once the call is cancelled
SleepDone_unlessAborted(c) ==
    /\ calls[c].pc = "sleep"
    /\ ~calls[c].aborted
    /\ BeginAttempt(c, [calls[c] EXCEPT !.attempt = @ + 1])
    /\ UNCHANGED <<config, cancelReply, panel>>

\* The retry delay elapses: the next attempt
SleepDone(c) ==
    /\ calls[c].pc = "sleep"
    /\ BeginAttempt(c, [calls[c] EXCEPT !.attempt = @ + 1])
    /\ UNCHANGED <<config, cancelReply, panel>>

\* FetchResponds with a fetchWithRetry that takes a non-ok status for a
\* failed attempt while its budget lasts
FetchResponds_retriesStatus(c, res) ==
    /\ calls[c].pc = "fetch"
    /\ ~calls[c].aborted
    /\ LET call == [calls[c] EXCEPT !.res = res, !.body = res.body]
       IN  IF ~res.ok /\ ~BudgetExhausted(call.attempt, call.attemptCount)
           THEN /\ calls' = [calls EXCEPT ![c] =
                               [call EXCEPT !.pc = "sleep",
                                            !.delays = Append(@, RetryDelay(call.retryDelayMs,
                                                                            call.attempt))]]
                /\ UNCHANGED inflightChats
           ELSE IF ~res.ok
           THEN /\ calls' = [calls EXCEPT ![c] = [call EXCEPT !.pc = "errbody"]]
                /\ UNCHANGED inflightChats
           ELSE IF ~res.hasBody
                THEN Finish(c, call, CatchResponse(NewError(M_missing_body)))
           ELSE /\ calls' = [calls EXCEPT ![c] = [call EXCEPT !.pc = "read", !.rd = NewReader]]
                /\ UNCHANGED inflightChats
    /\ UNCHANGED <<config, cancelReply, panel>>

\* The pending fetch resolves with the response res: fetchWithRetry returns
\* it, and the handler goes on to res.text() or to readResponseText(res)
FetchResponds(c, res) ==
    /\ calls[c].pc = "fetch"
    /\ ~calls[c].aborted
    /\ LET call == [calls[c] EXCEPT !.res = res, !.body = res.body]
       IN  IF ~res.ok
           THEN /\ calls' = [calls EXCEPT ![c] = [call EXCEPT !.pc = "errbody"]]
                /\ UNCHANGED inflightChats
           ELSE IF ~res.hasBody
                THEN Finish(c, call, CatchResponse(NewError(M_missing_body)))
           ELSE /\ calls' = [calls EXCEPT ![c] = [call EXCEPT !.pc = "read", !.rd = NewReader]]
                /\ UNCHANGED inflightChats
    /\ UNCHANGED <<config, cancelReply, panel>>

\* res.text() of a non-ok response resolves with the whole body
ErrBodyRead(c) ==
    /\ calls[c].pc = "errbody"
    /\ ~calls[c].aborted
    /\ \E r \in {HttpErrorResponse(calls[c].res, calls[c].res.body)} :
            Finish(c, [calls[c] EXCEPT !.res.body = <<>>, !.readEnd = "text"], r)
    /\ UNCHANGED <<config, cancelReply, panel>>

\* AfterRead with a thrown value escaping the handler: no sendResponse
AfterRead_uncaught(c, call, step) ==
    CASE step.kind = "await" ->
            /\ calls' = [calls EXCEPT ![c] = [call EXCEPT !.rd = step.rd]]
            /\ UNCHANGED inflightChats
      [] step.kind = "return" ->
            Finish(c, [call EXCEPT !.rd = step.rd, !.readEnd = "return", !.content = step.val],
                   OkResponse(step.val))
      [] OTHER ->
            /\ calls' = EntryRemoved([calls EXCEPT ![c] =
                                        [call EXCEPT !.rd = step.rd, !.readEnd = "throw",
                                                     !.pc = "done"]],
                                     call.requestId)
            /\ inflightChats' = MapDelete(inflightChats, call.requestId)

\* The handler's continuation after the step the reader took on a settled
\* read: await the next read, or sendResponse with the text or from the catch
AfterRead(c, call, step) ==
    CASE step.kind = "await" ->
            /\ calls' = [calls EXCEPT ![c] = [call EXCEPT !.rd = step.rd]]
            /\ UNCHANGED inflightChats
      [] step.kind = "return" ->
            Finish(c, [call EXCEPT !.rd = step.rd, !.readEnd = "return", !.content = step.val],
                   OkResponse(step.val))
      [] OTHER ->
            Finish(c, [call EXCEPT !.rd = step.rd, !.readEnd = "throw"], CatchResponse(step.err))

\* ReadSettles with a body that keeps delivering after the signal's abort
ReadSettles_afterAbort(c, n) ==
    /\ calls[c].pc = "read"
    /\ IF calls[c].res.body = <<>>
       THEN \E step \in {ReadSettled(calls[c].rd, TRUE, <<>>)} : AfterRead(c, calls[c], step)
       ELSE /\ n \in 1..Len(calls[c].res.body)
            /\ calls[c].chunksRead + 1 >= MaxChunks => n = Len(calls[c].res.body)
            /\ \E step \in {ReadSettled(calls[c].rd, FALSE, SubSeq(calls[c].res.body, 1, n))} :
                    AfterRead(c, [calls[c] EXCEPT !.res.body = DropTo(@, n + 1),
                                                  !.chunksRead = @ + 1],
                              step)
    /\ UNCHANGED <<config, cancelReply, panel>>

\* The pending reader.read() of readResponseText or readSseTextStream
\* resolves: with done when the body is exhausted, else with a chunk of the
\* next n characters (the last chunk the bound allows takes all that is left)
ReadSettles(c, n) ==
    /\ calls[c].pc = "read"
    /\ ~calls[c].aborted
    /\ IF calls[c].res.body = <<>>
       THEN \E step \in {ReadSettled(calls[c].rd, TRUE, <<>>)} : AfterRead(c, calls[c], step)
       ELSE /\ n \in 1..Len(calls[c].res.body)
            /\ calls[c].chunksRead + 1 >= MaxChunks => n = Len(calls[c].res.body)
            /\ \E step \in {ReadSettled(calls[c].rd, FALSE, SubSeq(calls[c].res.body, 1, n))} :
                    AfterRead(c, [calls[c] EXCEPT !.res.body = DropTo(@, n + 1),
                                                  !.chunksRead = @ + 1],
                              step)
    /\ UNCHANGED <<config, cancelReply, panel>>

\* The connection breaks while a body is read: res.text() or reader.read()
\* rejects with the transport failure e
BodyFails(c, e) ==
    /\ calls[c].pc \in {"errbody", "read"}
    /\ ~calls[c].aborted
    /\ Finish(c, calls[c], CatchResponse(e))
    /\ UNCHANGED <<config, cancelReply, panel>>

\* AbortSettles with fetchWithRetry taking the rejection of an aborted
\* fetch for a failure to retry
AbortSettles_retried(c) ==
    /\ calls[c].pc \in {"fetch", "errbody", "read"}
    /\ calls[c].aborted
    /\ IF calls[c].pc = "fetch" /\ ~BudgetExhausted(calls[c].attempt, calls[c].attemptCount)
       THEN /\ calls' = [calls EXCEPT ![c] =
                           [@ EXCEPT !.pc = "sleep",
                                     !.failures = Append(@, AbortErr),
                                     !.delays = Append(@, RetryDelay(calls[c].retryDelayMs,
                                                                     calls[c].attempt))]]
            /\ UNCHANGED inflightChats
       ELSE Finish(c, calls[c], CatchResponse(AbortErr))
    /\ UNCHANGED <<config, cancelReply, panel>>

\* The call's signal is aborted: its pending fetch, res.text() or
\* reader.read() rejects with the AbortError
AbortSettles(c) ==
    /\ calls[c].pc \in {"fetch", "errbody", "read"}
    /\ calls[c].aborted
    /\ Finish(c, calls[c], CatchResponse(AbortErr))
    /\ UNCHANGED <<config, cancelReply, panel>>

CancelReply(aborted) == [sent |-> TRUE, ok |-> TRUE, aborted |-> aborted]
NoCancelReply == [sent |-> FALSE, ok |-> FALSE, aborted |-> FALSE]

\* CancelChat replying aborted: true whether or not it found an entry
CancelChat_repliesAborted(rid) ==
    LET requestId == CancelKey(rid)
        c == MapGet(inflightChats, requestId)
    IN  /\ IF MapHas(inflightChats, requestId)
           THEN /\ calls' = EntryRemoved([calls EXCEPT ![c] =
                                              [@ EXCEPT !.aborted = TRUE,
                                                        !.cancelledAt = Stage(c)]],
                                           requestId)
                /\ inflightChats' = MapDelete(inflightChats, requestId)
           ELSE UNCHANGED <<calls, inflightChats>>
        /\ cancelReply' = CancelReply(TRUE)
        /\ UNCHANGED <<config, panel>>

\* saveConfig(nextConfig) of the options page, from its loadConfig() to its
\* chrome.storage.sync.set
SaveConfig(nextConfig) ==
    /\ config' = saveConfig(config, nextConfig)
    /\ UNCHANGED <<inflightChats, calls, cancelReply, panel>>

\* A CANCEL_CHAT message with message.requestId = rid arrives
CancelChat(rid) ==
    LET requestId == CancelKey(rid)
        c == MapGet(inflightChats, requestId)
    IN  /\ IF MapHas(inflightChats, requestId)
           THEN /\ calls' = EntryRemoved([calls EXCEPT ![c] =
                                              [@ EXCEPT !.aborted = TRUE,
                                                        !.cancelledAt = Stage(c)]],
                                           requestId)
                /\ inflightChats' = MapDelete(inflightChats, requestId)
                /\ cancelReply' = CancelReply(TRUE)
           ELSE /\ cancelReply' = CancelReply(FALSE)
                /\ UNCHANGED <<calls, inflightChats>>
        /\ UNCHANGED <<config, panel>>

\* ------------------------------------------------------------ page panel

\* Bound of the model: the invocations of submitPrompt
MaxPrompts == 2

MAX_MESSAGES == 30

\* trimChatHistory keeping the oldest messages
trimChatHistory_keepsOldest(history) ==
    IF Len(history) <= MAX_MESSAGES THEN history
    ELSE SubSeq(history, 1, MAX_MESSAGES)

\* trimChatHistory(history), for an array
trimChatHistory(history) ==
    IF Len(history) <= MAX_MESSAGES THEN history
    ELSE SubSeq(history, Len(history) - MAX_MESSAGES + 1, Len(history))

\* what saveChatHistory(history) gives to area.set
saveChatHistory(history) == trimChatHistory(history)

\* The messages of chatHistory.  The content of a message is named by a
\* number: p for the text of the p-th prompt and for the text of the reply to
\* it, -i for the i-th message of the history loaded at mount.
UserMessage(p) == [role |-> "user", content |-> p]
AssistantMessage(p) == [role |-> "assistant", content |-> p]
LoadedHistory(n) ==
    [i \in 1..n |-> [role |-> IF i % 2 = 1 THEN "user" ELSE "assistant", content |-> 0 - i]]

\* chatHistory.splice(index, 1), index counted from 0
Splice(history, index) ==
    SubSeq(history, 1, index) \o SubSeq(history, index + 2, Len(history))

\* An invocation of submitPrompt (pc: the await it is suspended at) and an
\* invocation of onCancel (with the values it read at its start).  No
\* request is 0, no index is -1.
IdlePrompt == [pc |-> "idle"]
IdleCancel == [pc |-> "idle", pending |-> 0, userIndex |-> 0 - 1]

\* The panel after mount, loadChatHistory() having returned `loaded`:
\* chatHistory, the array saved under HISTORY_KEY, every message pushed so far
\* (history), whether inputEl holds text, activeRequestId (a request is named
\* by its invocation of submitPrompt), activePendingBubble,
\* activeUserMessageIndex, the invocations, and what the pending bubble of
\* each request shows
MountedPanel(loaded) ==
    [chatHistory |-> loaded, persisted |-> loaded, pushed |-> loaded,
     input |-> FALSE,
     activeRequestId |-> 0, activePendingBubble |-> 0, activeUserMessageIndex |-> 0 - 1,
     prompts |-> [p \in 1..MaxPrompts |-> IdlePrompt],
     cancels |-> [p \in 1..MaxPrompts |-> IdleCancel],
     bubbles |-> [p \in 1..MaxPrompts |-> "none"]]

\* No panel is mounted
NoPanel == [chatHistory |-> <<>>]

Prompts == DOMAIN panel.prompts

\* onSendOrCancel (a click on the button, or Enter) with a prompt typed into
\* inputEl and no active request, or handleQuickAction (quick): onSend and
\* submitPrompt up to `await ensureConfigured()`
Send(p, quick) ==
    /\ panel.prompts[p].pc = "idle"
    /\ \A q \in Prompts : q < p => panel.prompts[q].pc # "idle"
    /\ panel.activeRequestId = 0
    /\ panel' = [panel EXCEPT !.input = IF quick THEN @ ELSE TRUE,
                              !.prompts[p].pc = "ensureConfigured"]
    /\ UNCHANGED <<config, inflightChats, calls, cancelReply>>

\* ensureConfigured() resolves: submitPrompt up to `await saveChatHistory`
EnsureConfigured(p) ==
    /\ panel.prompts[p].pc = "ensureConfigured"
    /\ IF loadConfig(config).token = <<>> \/ loadConfig(config).model = <<>>
       THEN panel' = [panel EXCEPT !.prompts[p].pc = "done"]
       ELSE panel' = [panel EXCEPT
                        !.input = FALSE,
                        !.chatHistory = trimChatHistory(Append(@, UserMessage(p))),
                        !.pushed = Append(@, UserMessage(p)),
                        !.activeUserMessageIndex =
                            Len(trimChatHistory(Append(panel.chatHistory, UserMessage(p)))) - 1,
                        !.persisted =
                            saveChatHistory(trimChatHistory(Append(panel.chatHistory,
                                                                   UserMessage(p)))),
                        !.prompts[p].pc = "saveUser"]
    /\ UNCHANGED <<config, inflightChats, calls, cancelReply>>

\* saveChatHistory resolves: submitPrompt up to `await callChatApi`
UserSaved(p) ==
    /\ panel.prompts[p].pc = "saveUser"
    /\ panel' = [panel EXCEPT !.bubbles[p] = "thinking",
                              !.activeRequestId = p,
                              !.activePendingBubble = p,
                              !.prompts[p].pc = "callChatApi"]
    /\ UNCHANGED <<config, inflightChats, calls, cancelReply>>

\* the finally block of submitPrompt, on the panel record given
Finally(pn, p) ==
    IF pn.activeRequestId = p
    THEN [pn EXCEPT !.activeRequestId = 0, !.activePendingBubble = 0,
                    !.activeUserMessageIndex = 0 - 1, !.prompts[p].pc = "done"]
    ELSE [pn EXCEPT !.prompts[p].pc = "done"]

\* callChatApi resolves with apiRes ("ok", "failed", "cancelled"), or
\* rejects ("rejected"): submitPrompt to its end, or up to the
\* `await saveChatHistory` of the reply
ChatReturns(p, apiRes) ==
    /\ panel.prompts[p].pc = "callChatApi"
    /\ panel' =
         IF panel.activeRequestId # p THEN Finally(panel, p)
         ELSE IF apiRes = "ok"
         THEN [panel EXCEPT !.bubbles[p] = "reply",
                            !.chatHistory = trimChatHistory(Append(@, AssistantMessage(p))),
                            !.pushed = Append(@, AssistantMessage(p)),
                            !.persisted =
                                saveChatHistory(trimChatHistory(Append(panel.chatHistory,
                                                                       AssistantMessage(p)))),
                            !.prompts[p].pc = "saveReply"]
         ELSE Finally([panel EXCEPT !.bubbles[p] =
                                        IF apiRes = "cancelled" THEN "cancelled" ELSE "error"],
                      p)
    /\ UNCHANGED <<config, inflightChats, calls, cancelReply>>

\* saveChatHistory of the reply resolves: submitPrompt to its end
ReplySaved(p) ==
    /\ panel.prompts[p].pc = "saveReply"
    /\ panel' = Finally(panel, p)
    /\ UNCHANGED <<config, inflightChats, calls, cancelReply>>

\* onSendOrCancel with an active request: onCancel up to `await cancelChatApi`
Cancel ==
    /\ panel.activeRequestId # 0
    /\ panel' = [panel EXCEPT
                    !.cancels[panel.activeRequestId] =
                        [pc |-> "cancelChatApi", pending |-> panel.activePendingBubble,
                         userIndex |-> panel.activeUserMessageIndex],
                    !.activeRequestId = 0, !.activePendingBubble = 0,
                    !.activeUserMessageIndex = 0 - 1]
    /\ UNCHANGED <<config, inflightChats, calls, cancelReply>>

\* the end of onCancel: the pending bubble shows "Cancelled."
CancelEnds(pn, r) ==
    [pn EXCEPT !.cancels[r].pc = "done",
               !.bubbles = IF pn.cancels[r].pending # 0
                           THEN [@ EXCEPT ![pn.cancels[r].pending] = "cancelled"] ELSE @]

\* cancelChatApi resolves or rejects: onCancel to its end, or up to its
\* `await saveChatHistory`
CancelReturns(r) ==
    LET userIndex == panel.cancels[r].userIndex
    IN  /\ panel.cancels[r].pc = "cancelChatApi"
        /\ panel' =
             IF /\ userIndex >= 0 /\ userIndex < Len(panel.chatHistory)
                /\ panel.chatHistory[userIndex + 1].role = "user"
             THEN [panel EXCEPT !.chatHistory = Splice(@, userIndex),
                                !.persisted = saveChatHistory(Splice(panel.chatHistory, userIndex)),
                                !.cancels[r].pc = "saveChatHistory"]
             ELSE CancelEnds(panel, r)
        /\ UNCHANGED <<config, inflightChats, calls, cancelReply>>

\* saveChatHistory of onCancel resolves: onCancel to its end
CancelSaved(r) ==
    /\ panel.cancels[r].pc = "saveChatHistory"
    /\ panel' = CancelEnds(panel, r)
    /\ UNCHANGED <<config, inflightChats, calls, cancelReply>>

\* ------------------------------------------------------------- inputs

Text_a == <<"a">>
Text_b == <<"b">>
Text_sp_a == <<" ", "a">>
Text_sk == <<"s", "k">>
Text_Hi == <<"H", "i">>
Text_Hel == <<"H", "e", "l">>
Text_lo == <<"l", "o">>
Text_rate_limited == <<"r", "a", "t", "e", " ", "l", "i", "m", "i", "t", "e", "d">>
Text_job_aborted == <<"j", "o", "b", " ", "A", "b", "o", "r", "t", "e", "d">>
Text_Hello_world == <<"H", "e", "l", "l", "o", " ", "w", "o", "r", "l", "d">>
Text_hello == <<"h", "e", "l", "l", "o">>
Text_500 == <<"5", "0", "0">>
Text_200 == <<"2", "0", "0">>
Text_OK == <<"O", "K">>
Text_Server_Error == <<"S", "e", "r", "v", "e", "r", " ", "E", "r", "r", "o", "r">>

\* message.requestId of the CHAT messages: strings, or none
ChatIds == {JStr(Text_a), JStr(Text_sp_a), JStr(Text_b), Undefined}

\* message.requestId of the CANCEL_CHAT messages
CancelIds == {JStr(Text_a), JStr(Text_sp_a), JStr(Text_b), Undefined}

\* what a failed connection makes fetch or a body read reject with
TransportErrors == {Err(N_TypeError, M_failed_to_fetch), Err(N_TypeError, M_network_lost)}

\* The upstream's event-stream texts
Event(payload) == S_data \o <<" ">> \o JsonText(payload) \o <<"\n", "\n">>
DeltaPayload(text) == JObj(<< <<K_type, JStr(T_text_delta)>>, <<K_delta, JStr(text)>> >>)
DonePayload(text) == JObj(<< <<K_type, JStr(T_text_done)>>, <<K_text, JStr(text)>> >>)
CompletedPayload(response) ==
    JObj(<< <<K_type, JStr(T_completed)>>, <<K_response, response>> >>)
ErrorPayload(message) ==
    JObj(<< <<K_type, JStr(T_error)>>, <<K_error, JObj(<< <<K_message, JStr(message)>> >>)>> >>)
ChatDeltaPayload(text) == JObj(<< <<K_delta, JObj(<< <<K_content, JStr(text)>> >>)>> >>)
Envelope(text) == JObj(<< <<K_output_text, JStr(text)>> >>)
ErrorBody(message) == JsonText(JObj(<< <<K_error, JObj(<< <<K_message, JStr(message)>> >>)>> >>))

OkStream(body) == Response(TRUE, Text_200, Text_OK, TRUE, body)

EventStream == Event(ChatDeltaPayload(Text_Hi)) \o Event(DonePayload(Text_Hi))

HttpError(body) == Response(FALSE, Text_500, Text_Server_Error, TRUE, body)

\* The bodies of the HTTP errors of SpecCall, each with the part of the
\* error message that comes from it: a structured message; a blank
\* structured message; a document without one; a text that is no document;
\* an event stream; no body
HttpErrorBodies ==
    { [body |-> ErrorBody(Text_rate_limited), m |-> Text_rate_limited],
      [body |-> ErrorBody(<<" ">>), m |-> ErrorBody(<<" ">>)],
      [body |-> JsonText(Envelope(Text_Hi)), m |-> JsonText(Envelope(Text_Hi))],
      [body |-> Text_hello, m |-> Text_hello],
      [body |-> EventStream, m |-> EventStream],
      [body |-> <<>>, m |-> Text_Server_Error] }

\* The responses the upstream of SpecCall answers with: an event stream, an
\* undecodable body, the HTTP errors
BasicResponses ==
    { OkStream(EventStream), OkStream(Text_hello) }
        \cup {HttpError(e.body) : e \in HttpErrorBodies}

\* The retry budgets fetchWithRetry is given in SpecCall
Budgets == {Budget(r, d) : r \in 0..MaxRetries, d \in {DefaultRetryDelayMs, 100}}

\* a body of one event that carries no text
DoneOnlyStream == S_data \o <<" ">> \o S_DONE \o <<"\n", "\n">>

\* a document whose first choice's message content is the number 0
NumberDocument ==
    JObj(<< <<K_choices,
              JArr(<< JObj(<< <<K_message, JObj(<< <<K_content, JNum(<<"0">>)>> >>)>> >>) >>)>> >>)

\* a body that opens like a JSON document and goes on with a data line
BraceThenData == <<" ", "{", "\n">> \o S_data \o <<" ">> \o Text_a \o <<"\n", "\n">>

\* an event stream of an id field and a comment line, no data line
Text_id_1 == <<"i", "d", ":", " ", "1">>
CommentSecondLine == Text_id_1 \o <<"\n">> \o S_colon \o <<" ">> \o Text_a \o <<"\n", "\n">>

\* a JSON document cut off before its closing brace
TruncatedDocument ==
    SubSeq(JsonText(Envelope(Text_Hi)), 1, Len(JsonText(Envelope(Text_Hi))) - 1)

\* The bodies the upstream of SpecStream answers with
StreamBodies ==
    { Event(DeltaPayload(Text_Hel)) \o Event(DeltaPayload(Text_lo))
        \o Event(DonePayload(Text_Hel \o Text_lo)),
      Event(ChatDeltaPayload(Text_Hello_world)) \o Event(DonePayload(Text_Hi)),
      Event(DonePayload(<<" ">>)) \o Event(CompletedPayload(Envelope(Text_Hi))),
      Event(ChatDeltaPayload(<<" ", " ">>)) \o Event(DonePayload(Text_a)),
      Event(ChatDeltaPayload(Text_Hi)) \o Event(ErrorPayload(Text_rate_limited))
        \o Event(DonePayload(Text_Hel)),
      Event(ErrorPayload(Text_job_aborted)),
      Event(CompletedPayload(Envelope(Text_Hi))),
      DoneOnlyStream,
      S_data \o Text_a \o <<"\r", "\n">> \o S_data \o Text_b \o <<"\r", "\n", "\r", "\n">>,
      JsonText(Envelope(Text_Hi)),
      JsonText(NumberDocument),
      BraceThenData,
      TruncatedDocument,
      CommentSecondLine,
      Text_hello,
      <<>> }

StreamResponses == {OkStream(body) : body \in StreamBodies}

\* an event block carrying the data payload given, without its terminator
Block(payload) == S_data \o <<" ">> \o payload

\* a block followed by the blank line that terminates it
Terminated(block) == block \o <<"\n", "\n">>

Text_ping == <<":", " ", "p", "i", "n", "g">>
Text_response_created ==
    <<"r", "e", "s", "p", "o", "n", "s", "e", ".", "c", "r", "e", "a", "t", "e", "d">>

\* blocks without a data line, with an empty payload, or with the sentinel
InertBlocks ==
    {Text_ping, S_data, S_data \o <<"\n">> \o S_data \o <<" ">>, Block(S_DONE),
     Text_ping \o <<"\n">> \o Block(S_DONE \o <<" ">>)}

\* blocks whose payload JSON.parse rejects, with that payload
RawBlocks ==
    {[block |-> Block(Text_hello), payload |-> Text_hello],
     [block |-> Block(TruncatedDocument), payload |-> TruncatedDocument],
     [block |-> Block(Text_a) \o <<"\n">> \o S_data \o Text_b,
      payload |-> Text_a \o <<"\n">> \o Text_b]}

\* an event other than the completed one that carries a response envelope
CreatedPayload(response) ==
    JObj(<< <<K_type, JStr(Text_response_created)>>, <<K_response, response>> >>)

\* a delta event that carries a response envelope
DeltaWithEnvelope(text, response) ==
    JObj(<< <<K_delta, JObj(<< <<K_content, JStr(text)>> >>)>>, <<K_response, response>> >>)

\* The bodies the upstream of SpecDecode answers with
DecoderBodies ==
    { Terminated(Block(S_DONE)) \o Terminated(Text_ping) \o Terminated(S_data)
        \o Event(ChatDeltaPayload(Text_Hi)),
      Event(ChatDeltaPayload(Text_Hi)) \o Terminated(Block(Text_hello))
        \o Event(ChatDeltaPayload(Text_lo)),
      Event(DeltaPayload(Text_Hi)) \o Event(CompletedPayload(Envelope(Text_Hi))),
      Event(CompletedPayload(Envelope(Text_Hi))) \o Event(CreatedPayload(Envelope(Text_a))),
      Event(DeltaWithEnvelope(Text_b, Envelope(Text_a)))
        \o Event(CompletedPayload(Envelope(Text_Hi))),
      Event(ChatDeltaPayload(Text_Hi)) \o Block(Text_hello),
      Event(ChatDeltaPayload(Text_Hi)) \o Block(JsonText(DonePayload(Text_hello))) \o <<"\n">>,
      Terminated(Block(Text_a)) \o Block(JsonText(ErrorPayload(Text_rate_limited))) }

DecoderResponses == {OkStream(body) : body \in DecoderBodies}

\* The event streams the upstream of SpecCancel answers with
CancelledStreams ==
    { OkStream(EventStream),
      OkStream(Event(ChatDeltaPayload(Text_Hi)) \o Terminated(Block(Text_hello))
                    \o Event(ChatDeltaPayload(Text_lo))) }

\* The conversations a CHAT message of SpecJson carries: none, one message,
\* and messages of both roles around an item that is no message
Message(role, content) == JObj(<< <<K_role, JStr(role)>>, <<K_content, JStr(content)>> >>)
Conversations ==
    { Undefined,
      JArr(<<Message(V_user, Text_Hi)>>),
      JArr(<<Message(V_user, Text_Hi), JNull, Message(V_assistant, Text_a)>>) }

ContentPart(type, text) == JObj(<< <<K_type, JStr(type)>>, <<K_text, JStr(text)>> >>)
OutputItem(contents) == JObj(<< <<K_content, JArr(contents)>> >>)
MessageChoice(content, text) ==
    JObj(<< <<K_message, JObj(<< <<K_content, content>> >>)>>, <<K_text, JStr(text)>> >>)
TextChoice(text) == JObj(<< <<K_text, JStr(text)>> >>)

\* The JSON documents the upstream of SpecJson answers with, each with the
\* text its text-bearing fields hold: a top-level output_text beside the
\* other fields; output items with content entries of both text types, of
\* another type and without text, beside choices; choices with a message
\* and a text; a choice with a text only; a message whose content is null,
\* and one whose content is a number; documents with none of the fields
JsonDocuments ==
    { [doc |-> JObj(<< <<K_output, JArr(<<OutputItem(<<ContentPart(K_text, Text_a)>>)>>)>>,
                       <<K_choices, JArr(<<TextChoice(Text_b)>>)>>,
                       <<K_output_text, JStr(Text_Hi)>> >>),
       text |-> Text_Hi],
      [doc |-> JObj(<< <<K_output_text, JNull>>,
                       <<K_output,
                         JArr(<< OutputItem(<< ContentPart(K_output_text, Text_Hel),
                                               ContentPart(K_type, Text_b),
                                               JNull,
                                               ContentPart(K_text, Text_lo) >>),
                                 JObj(<<>>),
                                 OutputItem(<< ContentPart(K_text, Text_a) >>) >>)>>,
                       <<K_choices, JArr(<<TextChoice(Text_b)>>)>> >>),
       text |-> Text_Hel \o Text_lo \o Text_a],
      [doc |-> JObj(<< <<K_output, JArr(<<OutputItem(<<ContentPart(K_type, Text_b)>>)>>)>>,
                       <<K_choices, JArr(<< MessageChoice(JStr(Text_Hi), Text_a),
                                            TextChoice(Text_b) >>)>> >>),
       text |-> Text_Hi],
      [doc |-> JObj(<< <<K_choices, JArr(<<TextChoice(Text_a)>>)>> >>),
       text |-> Text_a],
      [doc |-> JObj(<< <<K_choices, JArr(<<MessageChoice(JNull, Text_b)>>)>> >>),
       text |-> Text_b],
      [doc |-> JObj(<< <<K_choices, JArr(<<MessageChoice(JNum(<<"7">>), Text_b)>>)>> >>),
       text |-> <<"7">>],
      [doc |-> JObj(<<>>), text |-> <<>>],
      [doc |-> JArr(<<>>), text |-> <<>>],
      [doc |-> JStr(Text_Hi), text |-> <<>>] }

JsonResponses == {OkStream(JsonText(d.doc)) : d \in JsonDocuments}

\* The tokens the configuration of SpecAuth holds: a bare key; keys with
\* the scheme in front, in two spellings; a key that only starts with the
\* letters of the scheme; a key with a backslash and an s after them
Text_Bearer_sk == <<"B", "e", "a", "r", "e", "r", " ", "s", "k">>
Text_bearer_sk == <<"b", "e", "a", "r", "e", "r", " ", "s", "k">>
Text_Bearersk == <<"B", "e", "a", "r", "e", "r", "s", "k">>
Text_Bearer_bs_sk == <<"B", "e", "a", "r", "e", "r", "\\", "s", "s", "k">>
Tokens == {Text_sk, Text_Bearer_sk, Text_bearer_sk, Text_Bearersk, Text_Bearer_bs_sk}

\* nextConfig.apiUrl of the saveConfig calls that carry a string, each with
\* the apiUrl loadConfig is to return after the save
ApiUrlStrings ==
    {
      [value |-> JStr(<<>>),
       loaded |-> DEFAULT_API_URL],
      [value |-> JStr(<<" ", " ", " ">>),
       loaded |-> DEFAULT_API_URL],
      [value |-> JStr(<<"n", "o", "t", " ", "a", " ", "u", "r", "l">>),
       loaded |-> DEFAULT_API_URL],
      [value |-> JStr(<<"h", "t", "t", "p", ":", "/", "/", "a", "p", "i", ".", "t", "e", "s", "t", "/", "v", "1">>),
       loaded |-> DEFAULT_API_URL],
      [value |-> JStr(<<"f", "t", "p", ":", "/", "/", "a", "p", "i", ".", "t", "e", "s", "t", "/", "v", "1">>),
       loaded |-> DEFAULT_API_URL],
      [value |-> JStr(<<"j", "a", "v", "a", "s", "c", "r", "i", "p", "t", ":", "a", "l", "e", "r", "t", "(", "1", ")">>),
       loaded |-> DEFAULT_API_URL],
      [value |-> JStr(<<"/", "/", "a", "p", "i", ".", "t", "e", "s", "t", "/", "v", "1">>),
       loaded |-> DEFAULT_API_URL],
      [value |-> JStr(<<"h", "t", "t", "p", "s", ":", "/", "/">>),
       loaded |-> DEFAULT_API_URL],
      [value |-> JStr(<<"H", "T", "T", "P", "S", ":", "/", "/", "A", "P", "I", ".", "t", "e", "s", "t", "/", "v", "1">>),
       loaded |-> <<"h", "t", "t", "p", "s", ":", "/", "/", "a", "p", "i", ".", "t", "e", "s", "t", "/", "v", "1">>],
      [value |-> JStr(<<" ", "h", "t", "t", "p", "s", ":", "/", "/", "a", "p", "i", ".", "t", "e", "s", "t", " ">>),
       loaded |-> <<"h", "t", "t", "p", "s", ":", "/", "/", "a", "p", "i", ".", "t", "e", "s", "t", "/">>],
      [value |-> JStr(<<"h", "t", "t", "p", "s", ":", "a", "p", "i", ".", "t", "e", "s", "t", "/", "v", "1">>),
       loaded |-> <<"h", "t", "t", "p", "s", ":", "/", "/", "a", "p", "i", ".", "t", "e", "s", "t", "/", "v", "1">>]
    }

\* nextConfig.apiUrl of the saveConfig calls that carry no string: absent,
\* null, a number
ApiUrlOthers == {Undefined, JNull, JNum(<<"5">>)}

\* nextConfig of the saveConfig calls
NextConfigs ==
    {[apiUrl |-> a, token |-> t, model |-> Undefined] :
        a \in {in.value : in \in ApiUrlStrings} \cup ApiUrlOthers,
        t \in {Undefined, JStr(Text_sk)}}

\* ------------------------------------------------------- specifications

Init ==
    /\ config \in {Saved(Undefined, <<>>), Saved(Undefined, Text_sk)}
    /\ inflightChats = {}
    /\ calls = [c \in 1..NumCalls |-> IdleCall]
    /\ cancelReply = NoCancelReply
    /\ panel = NoPanel

Next ==
    \/ \E c \in Calls, rid \in ChatIds : Chat(c, rid, TRUE)
    \/ \E c \in Calls : ConfigLoaded(c, DefaultBudget)
    \/ \E c \in Calls : FetchRejects(c, Err(N_TypeError, M_failed_to_fetch))
    \/ \E c \in Calls : SleepDone(c)
    \/ \E c \in Calls, res \in {OkStream(EventStream)} : FetchResponds(c, res)
    \/ \E c \in Calls : ReadSettles(c, Len(calls[c].res.body))
    \/ \E c \in Calls : AbortSettles(c)
    \/ \E rid \in CancelIds : CancelChat(rid)

\* The CHAT and CANCEL_CHAT handlers under NumCalls concurrent calls whose
\* callers keep the identifiers of the calls in flight distinct; the upstream
\* fails to connect or answers with an event stream
Spec == Init /\ [][Next]_vars

\* One CHAT call
InitOne ==
    /\ config \in {Saved(Undefined, <<>>), Saved(Undefined, Text_sk)}
    /\ inflightChats = {}
    /\ calls = [c \in {1} |-> IdleCall]
    /\ cancelReply = NoCancelReply
    /\ panel = NoPanel

NextCall ==
    \/ \E c \in Calls : Chat(c, JStr(Text_a), TRUE)
    \/ \E c \in Calls, budget \in Budgets : ConfigLoaded(c, budget)
    \/ \E c \in Calls, e \in TransportErrors : FetchRejects(c, e)
    \/ \E c \in Calls : SleepDone(c)
    \/ \E c \in Calls, res \in BasicResponses : FetchResponds(c, res)
    \/ \E c \in Calls : ErrBodyRead(c)
    \/ \E c \in Calls : ReadSettles(c, Len(calls[c].res.body))
    \/ \E c \in Calls, e \in TransportErrors : BodyFails(c, e)
    \/ \E c \in Calls : AbortSettles(c)
    \/ CancelChat(JStr(Text_a))

\* One CHAT call through every stage of the handler, with fetchWithRetry
\* under every retry budget up to MaxRetries, every kind of upstream answer
\* and failure, and CANCEL_CHAT messages for it
SpecCall == InitOne /\ [][NextCall]_vars

NextStream ==
    \/ \E c \in Calls : Chat(c, Undefined, TRUE)
    \/ \E c \in Calls : ConfigLoaded(c, DefaultBudget)
    \/ \E c \in Calls, res \in StreamResponses : FetchResponds(c, res)
    \/ \E c \in Calls : \E n \in 0..Len(calls[c].res.body) : ReadSettles(c, n)

\* readResponseText over every body of StreamBodies, delivered in every way
\* of splitting it into at most MaxChunks chunks, by a connection that neither fails nor is
\* cancelled
SpecStream == InitOne /\ [][NextStream]_vars

NextJson ==
    \/ \E c \in Calls, messages \in Conversations : ChatWith(c, Undefined, messages, TRUE)
    \/ \E c \in Calls : ConfigLoaded(c, DefaultBudget)
    \/ \E c \in Calls, res \in JsonResponses : FetchResponds(c, res)
    \/ \E c \in Calls : \E n \in 0..Len(calls[c].res.body) : ReadSettles(c, n)

\* One CHAT call with every conversation of Conversations, answered with
\* every document of JsonDocuments, delivered in every way of splitting it
\* into at most MaxChunks chunks
SpecJson == InitOne /\ [][NextJson]_vars

NextDecode ==
    \/ \E c \in Calls : Chat(c, Undefined, TRUE)
    \/ \E c \in Calls : ConfigLoaded(c, DefaultBudget)
    \/ \E c \in Calls, res \in DecoderResponses : FetchResponds(c, res)
    \/ \E c \in Calls : \E n \in 0..Len(calls[c].res.body) : ReadSettles(c, n)

\* readSseTextStream over every body of DecoderBodies, delivered in every way
\* of splitting it into at most MaxChunks chunks
SpecDecode == InitOne /\ [][NextDecode]_vars

NextCancel ==
    \/ \E c \in Calls : Chat(c, JStr(Text_a), TRUE)
    \/ \E c \in Calls : ConfigLoaded(c, DefaultBudget)
    \/ \E c \in Calls, res \in CancelledStreams : FetchResponds(c, res)
    \/ \E c \in Calls : \E n \in 0..Len(calls[c].res.body) : ReadSettles(c, n)
    \/ \E c \in Calls : AbortSettles(c)
    \/ CancelChat(JStr(Text_a))

\* One CHAT call whose event stream arrives in up to MaxChunks chunks, with
\* a CANCEL_CHAT for it at any moment
SpecCancel == InitOne /\ [][NextCancel]_vars

\* Nothing saved yet
InitConfig ==
    /\ config = Saved(Undefined, <<>>)
    /\ inflightChats = {}
    /\ calls = [c \in {1} |-> IdleCall]
    /\ cancelReply = NoCancelReply
    /\ panel = NoPanel

NextConfig ==
    \/ \E nextConfig \in NextConfigs : SaveConfig(nextConfig)
    \/ \E c \in Calls : Chat(c, Undefined, TRUE)
    \/ \E c \in Calls : ConfigLoaded(c, DefaultBudget)
    \/ \E c \in Calls : FetchRejects(c, Err(N_TypeError, M_failed_to_fetch))
    \/ \E c \in Calls : SleepDone(c)
    \/ \E c \in Calls, res \in {OkStream(EventStream)} : FetchResponds(c, res)
    \/ \E c \in Calls : ReadSettles(c, Len(calls[c].res.body))

\* saveConfig calls of the options page with every apiUrl of ApiUrlStrings and
\* ApiUrlOthers, before and while one CHAT call runs
SpecConfig == InitConfig /\ [][NextConfig]_vars

\* A saved token that is empty or not, and a saved model that is absent,
\* empty, blank or not
InitMissing ==
    /\ config \in {[Saved(Undefined, t) EXCEPT !.model = m] :
                        t \in {<<>>, Text_sk},
                        m \in {Undefined, JStr(<<>>), JStr(<<" ">>), JStr(Text_a)}}
    /\ inflightChats = {}
    /\ calls = [c \in {1} |-> IdleCall]
    /\ cancelReply = NoCancelReply
    /\ panel = NoPanel

\* One CHAT call as in SpecCall, under every saved object of InitMissing
SpecMissing == InitMissing /\ [][NextCall]_vars

\* The panel mounted with a saved token over a loaded history of 0,
\* MAX_MESSAGES - 1 or MAX_MESSAGES messages, or with no token over an empty
\* history
InitPanel ==
    /\ inflightChats = {}
    /\ calls = [c \in {1} |-> IdleCall]
    /\ cancelReply = NoCancelReply
    /\ \/ /\ config = Saved(Undefined, Text_sk)
          /\ panel \in {MountedPanel(LoadedHistory(n)) :
                          n \in {0, MAX_MESSAGES - 1, MAX_MESSAGES}}
       \/ /\ config = Saved(Undefined, <<>>)
          /\ panel = MountedPanel(LoadedHistory(0))

NextPanel ==
    \/ \E p \in Prompts, quick \in BOOLEAN : Send(p, quick)
    \/ \E p \in Prompts : EnsureConfigured(p)
    \/ \E p \in Prompts : UserSaved(p)
    \/ \E p \in Prompts, apiRes \in {"ok", "failed", "cancelled", "rejected"} :
            ChatReturns(p, apiRes)
    \/ \E p \in Prompts : ReplySaved(p)
    \/ Cancel
    \/ \E r \in Prompts : CancelReturns(r)
    \/ \E r \in Prompts : CancelSaved(r)

\* The page panel under up to MaxPrompts send triggers (button, Enter, quick
\* action) and cancels at any moment; the background answers each CHAT with
\* one of its three results, or the message fails
SpecPanel == InitPanel /\ [][NextPanel]_vars

NextShared ==
    \/ \E c \in Calls : Chat(c, JStr(Text_a), FALSE)
    \/ \E c \in Calls : ConfigLoaded(c, DefaultBudget)
    \/ \E c \in Calls : FetchRejects(c, Err(N_TypeError, M_failed_to_fetch))
    \/ \E c \in Calls : SleepDone(c)
    \/ \E c \in Calls, res \in {OkStream(EventStream)} : FetchResponds(c, res)
    \/ \E c \in Calls : ReadSettles(c, Len(calls[c].res.body))
    \/ \E c \in Calls : AbortSettles(c)
    \/ CancelChat(JStr(Text_a))

\* NumCalls CHAT calls that all carry the requestId "a", whether or not an
\* earlier one is still in flight, and CANCEL_CHAT messages for that id
SpecShared == Init /\ [][NextShared]_vars

InitAuth ==
    /\ config \in {Saved(Undefined, t) : t \in Tokens}
    /\ inflightChats = {}
    /\ calls = [c \in {1} |-> IdleCall]
    /\ cancelReply = NoCancelReply
    /\ panel = NoPanel

\* One CHAT call as in SpecCall, under every token of Tokens
SpecAuth == InitAuth /\ [][NextCall]_vars

\* What the handler's surroundings owe a call in flight.  loadConfig
\* resolves, a fetch resolves or rejects, a retry delay elapses, an aborted
\* operation rejects:
Settle ==
    \/ \E c \in Calls, budget \in Budgets : ConfigLoaded(c, budget)
    \/ \E c \in Calls, e \in TransportErrors : FetchRejects(c, e)
    \/ \E c \in Calls : SleepDone(c)
    \/ \E c \in Calls, res \in BasicResponses : FetchResponds(c, res)
    \/ \E c \in Calls : AbortSettles(c)

\* and a read of a body (res.text() or reader.read()) resolves or rejects.
BodyRead ==
    \/ \E c \in Calls : ErrBodyRead(c)
    \/ \E c \in Calls : ReadSettles(c, Len(calls[c].res.body))
    \/ \E c \in Calls, e \in TransportErrors : BodyFails(c, e)

\* a read of a body is pending: the enabling condition of BodyRead
ReadPending == \E c \in Calls : calls[c].pc \in {"errbody", "read"} /\ ~calls[c].aborted

\* SpecCall with surroundings that do not leave a pending operation of the
\* handler pending for ever (weak fairness of Settle and of BodyRead, the
\* latter written out with its enabling condition); the arrival of messages
\* is under no obligation
SpecLive ==
    /\ InitOne /\ [][NextCall]_vars
    /\ WF_vars(Settle)
    /\ ([]<>(~ReadPending) \/ []<><<BodyRead>>_vars)

\* ------------------------------------------------------------- claims

\* the message the CHAT handler's catch block reports for a thrown value
\* that is no cancellation
Surfaced(message) == IF message = M_failed_to_fetch THEN M_network_error ELSE message

\* a response of one of the three shapes Ok(text), Failed(message), Cancelled
WellFormed(r) ==
    \/ r = Ok(r.content)
    \/ r = Failed(r.error) /\ r.error # <<>>
    \/ r = Cancelled

\* C1: a CHAT call that a CANCEL_CHAT found in flight (the cancel reported a
\* live entry for its requestId) resolves Cancelled, never Ok or Failed, at
\* whatever stage the cancel arrived.
C1_CancelledAtAnyStage ==
    \A c \in Calls :
        Resolved(c) /\ calls[c].cancelledAt # "none" => calls[c].response = Cancelled

\* C2: a call resolves Cancelled only if its own cancellation handle was
\* triggered; a failure of a call whose handle was never triggered resolves
\* Failed with a message, whatever the text of the error; and a triggered
\* cancellation is never surfaced as Failed.
C2_CancelledOnlyIfTriggered ==
    \A c \in Calls :
        Resolved(c) =>
            /\ calls[c].response.cancelled => calls[c].aborted
            /\ ~calls[c].aborted /\ ~calls[c].response.ok =>
                    calls[c].response = Failed(calls[c].response.error)
                    /\ calls[c].response.error # <<>>
            /\ calls[c].aborted => calls[c].response.ok \/ calls[c].response.cancelled

\* C3: every CHAT request gets exactly one response, on every control path:
\* none while the handler runs, one once it has ended, and that response is
\* one of Ok(text), Failed(message) and Cancelled.
C3_ExactlyOneResponse ==
    \A c \in Calls :
        /\ calls[c].responses = (IF Resolved(c) THEN 1 ELSE 0)
        /\ Resolved(c) => WellFormed(calls[c].response)

\* a transport failure during the body read ended the call with one Failed
\* response
C3_Witness ==
    \E c \in Calls :
        /\ Resolved(c)
        /\ calls[c].res.ok
        /\ calls[c].responses = 1
        /\ calls[c].response = Failed(M_network_lost)

\* C4: with retries >= 0, fetchWithRetry issues at most retries + 1 attempts,
\* and when every attempt has failed the failure of the last one is raised
\* (the handler reports it as Failed); with the default budget of 1 retry a
\* call makes at most 2 attempts and is Failed once two attempts have failed.
C4_RetryBudget ==
    \A c \in Calls :
        LET call == calls[c]
            n == Len(call.failures)
        IN  /\ call.fetches <= call.retries + 1
            /\ n <= call.retries + 1
            /\ n = call.retries + 1 =>
                    /\ Resolved(c)
                    /\ call.fetches = n
                    /\ call.response = Failed(Surfaced(call.failures[n].message))
            /\ call.retries = DefaultRetries =>
                    /\ call.fetches <= 2
                    /\ n = 2 => Resolved(c) /\ ~call.response.ok /\ ~call.response.cancelled

\* under the default budget two attempts failed, each with another failure,
\* and the call is Failed with the second
C4_Witness ==
    \E c \in Calls :
        /\ Resolved(c)
        /\ calls[c].retries = DefaultRetries
        /\ calls[c].fetches = 2
        /\ Len(calls[c].failures) = 2
        /\ calls[c].failures[1].message # calls[c].failures[2].message
        /\ calls[c].response = Failed(calls[c].failures[2].message)

\* C5: once a call has resolved, with whatever outcome, inflightChats holds no
\* entry with that call's controller and none under its requestId (unless a
\* call dispatched since carries the same requestId), and when no call is in
\* flight inflightChats is empty.
C5_RegistryRetired ==
    /\ \A c \in Calls :
            Resolved(c) =>
                /\ \A e \in inflightChats : e[2] # c
                /\ (\A d \in Calls : InFlight(d) => calls[d].requestId # calls[c].requestId)
                        => ~MapHas(inflightChats, calls[c].requestId)
    /\ (\A c \in Calls : ~InFlight(c)) => inflightChats = {}

\* two calls have resolved, one Ok and one Cancelled, and the registry is empty
C5_Witness ==
    \E c, d \in Calls :
        /\ Resolved(c) /\ calls[c].response.ok
        /\ Resolved(d) /\ calls[d].response = Cancelled
        /\ inflightChats = {}

\* C6: a CANCEL_CHAT for a requestId without an entry in inflightChats replies
\* {ok: true, aborted: false}, aborts no controller and leaves inflightChats as
\* it is; the entry of a call is removed exactly once, by its cancel or by its
\* end, whichever comes first (callers keep the ids in flight distinct).
C6_CancelAbsentIsNoOp ==
    /\ [](\A c \in Calls :
            /\ calls[c].removals <= 1
            /\ Resolved(c) => calls[c].removals = 1
            /\ InFlight(c) =>
                    calls[c].removals = (IF <<calls[c].requestId, c>> \in inflightChats
                                         THEN 0 ELSE 1)
            /\ calls[c].aborted <=> calls[c].cancelledAt # "none")
    /\ [][\A rid \in CancelIds :
            CancelChat(rid) /\ ~MapHas(inflightChats, CancelKey(rid)) =>
                /\ cancelReply' = CancelReply(FALSE)
                /\ inflightChats' = inflightChats
                /\ \A c \in Calls : calls'[c].aborted = calls[c].aborted
                                    /\ calls'[c].removals = calls[c].removals]_vars

\* a call was cancelled and has resolved, its entry removed once, and a later
\* CANCEL_CHAT found no entry
C6_Witness ==
    \E c \in Calls :
        /\ Resolved(c)
        /\ calls[c].aborted
        /\ calls[c].removals = 1
        /\ cancelReply = CancelReply(FALSE)

\* what the CHAT handler answers for a successful response whose body arrives
\* as one chunk
WholeBodyResponse(body) ==
    LET step == readResponseText(IF body = <<>> THEN <<>> ELSE <<body>>)
    IN  IF step.kind = "return" THEN OkResponse(step.val) ELSE CatchResponse(step.err)

\* a body that, in one chunk, is read as an event stream
IsEventStream(body) ==
    LooksLikeSse(NormalizeNewlines(body)) /\ ~LooksLikeJson(NormalizeNewlines(body))

\* C7: for every event-stream body and every way of splitting it into chunks,
\* the call ends with the result it has when the body arrives as one chunk.
C7_ChunkBoundaryIndependent ==
    \A c \in Calls :
        Resolved(c) /\ calls[c].res.ok /\ IsEventStream(calls[c].body) =>
            calls[c].response = WholeBodyResponse(calls[c].body)

\* the call's readSseTextStream has returned; its accumulator is in rd.acc
SseReturned(c) ==
    Resolved(c) /\ calls[c].res.ok /\ calls[c].rd.mode = "sse" /\ ~calls[c].rd.acc.thrown

NonBlank(s) == \E i \in 1..Len(s) : s[i] \notin WhiteSpace

\* the text extracted from the final envelope, or the empty string
EnvelopeText(acc) ==
    LET t == extractResponseText(acc.completedResponse)
    IN  IF Truthy(t) THEN JsToString(t) ELSE <<>>

\* the precedence with "non-empty" read as "not the empty string"
PrecedenceNonEmpty(acc) ==
    LET concatenation == JoinWith(acc.textChunks, <<>>)
    IN  IF acc.doneText # <<>> /\ Len(acc.doneText) >= Len(concatenation) THEN acc.doneText
        ELSE IF concatenation # <<>> THEN concatenation
        ELSE IF acc.doneText # <<>> THEN acc.doneText
        ELSE EnvelopeText(acc)

\* the precedence with "non-empty" read as "holds a non-whitespace character"
PrecedenceNonBlank(acc) ==
    LET concatenation == JoinWith(acc.textChunks, <<>>)
    IN  IF NonBlank(acc.doneText) /\ Len(acc.doneText) >= Len(concatenation) THEN acc.doneText
        ELSE IF NonBlank(concatenation) THEN concatenation
        ELSE IF NonBlank(acc.doneText) THEN acc.doneText
        ELSE EnvelopeText(acc)

\* C8 as stated: the exhausted stream resolves to the done-text if non-empty
\* and at least as long as the concatenation of the chunks, else to that
\* concatenation if non-empty, else to the done-text if non-empty, else to the
\* envelope's text, else to the empty string.
C8_PrecedenceNonEmpty ==
    \A c \in Calls :
        SseReturned(c) => calls[c].response = Ok(PrecedenceNonEmpty(calls[c].rd.acc))

\* C8 amended: the same precedence, a text counting only if it holds a
\* non-whitespace character; deltas Hel, lo with done-text Hello give Hello,
\* and delta Hello world with done-text Hi gives Hello world.
C8_PrecedenceNonBlank ==
    \A c \in Calls :
        SseReturned(c) =>
            LET acc == calls[c].rd.acc
            IN  /\ calls[c].response = Ok(PrecedenceNonBlank(acc))
                /\ acc.textChunks = <<Text_Hel, Text_lo>> /\ acc.doneText = Text_Hel \o Text_lo
                        => calls[c].response = Ok(Text_Hel \o Text_lo)
                /\ acc.textChunks = <<Text_Hello_world>> /\ acc.doneText = Text_Hi
                        => calls[c].response = Ok(Text_Hello_world)

\* a stream whose done-text is one space and whose envelope carries Hi has
\* resolved to Hi
C8_Witness ==
    \E c \in Calls :
        /\ SseReturned(c)
        /\ calls[c].rd.acc.doneText = <<" ">>
        /\ calls[c].rd.acc.textChunks = <<>>
        /\ calls[c].response = Ok(Text_Hi)

\* a delta, then an error event, then a done-text event
ErrorMidStream ==
    Event(ChatDeltaPayload(Text_Hi)) \o Event(ErrorPayload(Text_rate_limited))
        \o Event(DonePayload(Text_Hel))

\* C9: when the decoder flushes a response.error event, decoding stops (no
\* later block is processed), the request is not retried, and the call
\* resolves Failed with the carried message (a generic one if none is carried).
C9_ErrorEventFails ==
    \A c \in Calls :
        Resolved(c) /\ calls[c].rd.acc.thrown =>
            /\ calls[c].response = Failed(calls[c].rd.acc.err.message)
            /\ calls[c].fetches = 1
            /\ calls[c].body = ErrorMidStream => calls[c].rd.acc.doneText = <<>>

\* a body that is neither a JSON document nor an event stream
LiteralText(body) ==
    body # <<>> /\ ~JsonParse(body).ok /\ ~IsEventStream(body)

\* C10 as stated: a successful response whose body is literal text, neither
\* JSON nor an event stream, resolves to a value carrying the empty string.
C10_LiteralTextYieldsEmpty ==
    \A c \in Calls :
        Resolved(c) /\ calls[c].res.ok /\ LiteralText(calls[c].body) =>
            calls[c].response = Ok(<<>>)

\* C10 amended: such a response resolves, with one response and nothing
\* raised out of the handler, Failed with "Invalid JSON response from API."
C10_LiteralTextFails ==
    \A c \in Calls :
        Resolved(c) /\ calls[c].res.ok /\ LiteralText(calls[c].body) =>
            /\ calls[c].responses = 1
            /\ calls[c].response = Failed(M_invalid_json)

\* the body hello, read in two chunks, has resolved Failed
C10_Witness ==
    \E c \in Calls :
        /\ Resolved(c)
        /\ calls[c].body = Text_hello
        /\ calls[c].chunksRead = 2
        /\ calls[c].response = Failed(M_invalid_json)

\* the call was answered with a successful status and the document d as body
AnsweredWith(c, d) ==
    Resolved(c) /\ calls[c].res.ok /\ calls[c].body = JsonText(d.doc)

\* C11: a call answered with a successful status and one well-formed JSON
\* document resolves Ok with the whole-document extraction of the document
\* (the top-level output_text, else the texts of the output/content entries
\* of type output_text or text in order, else the first choice's message
\* content, else its text, else the empty string), and the conversation the
\* call was given is what it was at dispatch.
C11_JsonDocumentExtracted ==
    \A c \in Calls :
        /\ calls[c].messages = calls[c].conversation
        /\ \A d \in JsonDocuments :
              AnsweredWith(c, d) =>
                  /\ calls[c].response = Ok(d.text)
                  /\ calls[c].rd.mode = "json"

\* a call given a conversation of several messages has been answered with
\* the document whose text is in its output entries, in more than one chunk
C11_Witness ==
    \E c \in Calls, d \in JsonDocuments :
        /\ AnsweredWith(c, d)
        /\ d.text = Text_Hel \o Text_lo \o Text_a
        /\ calls[c].response = Ok(d.text)
        /\ calls[c].chunksRead > 1
        /\ calls[c].conversation.t = "array" /\ Len(calls[c].conversation.v) = 3

\* the call's response had a successful status and readResponseText returned
\* a value for its body
Decoded(c) == Resolved(c) /\ calls[c].res.ok /\ calls[c].readEnd = "return"

\* C12: when the status is successful and readResponseText returns, the call
\* resolves Ok and the content is a string: the returned text itself, the
\* empty string when the returned value is empty, zero, null or undefined,
\* and the value as a string otherwise; an event stream with no deltas, no
\* done-text and no envelope resolves Ok with the empty string.
C12_OkTextOnSuccess ==
    \A c \in Calls :
        Decoded(c) =>
            /\ calls[c].response = Ok(calls[c].response.content)
            /\ calls[c].content.t = "string" => calls[c].response.content = calls[c].content.v
            /\ ~Truthy(calls[c].content) => calls[c].response = Ok(<<>>)
            /\ calls[c].content.t # "string" /\ Truthy(calls[c].content) =>
                  calls[c].response.content = JsToString(calls[c].content)
            /\ calls[c].body = DoneOnlyStream /\ calls[c].rd.mode = "sse" =>
                  calls[c].response = Ok(<<>>)

\* the event stream without text has been decoded, in more than one chunk
C12_Witness ==
    \E c \in Calls :
        /\ Decoded(c)
        /\ calls[c].body = DoneOnlyStream /\ calls[c].rd.mode = "sse"
        /\ calls[c].chunksRead > 1
        /\ calls[c].response = Ok(<<>>)

\* a document whose text-bearing field holds the number 0 has been decoded
C12_WitnessNumber ==
    \E c \in Calls :
        Decoded(c) /\ calls[c].content = JNum(<<"0">>) /\ calls[c].response = Ok(<<>>)

\* the call received a response with a non-success status
HttpFailure(c) == calls[c].res # NoRes /\ ~calls[c].res.ok

\* C13: a response with a non-success status is never given to
\* readResponseText, and once its body text has been read the call resolves
\* Failed with "HTTP <status>: <m>", m being error.message of the body when
\* the body is a JSON document with a non-blank string there, else the body
\* text, else the status text when the body is empty.
C13_HttpErrorFails ==
    \A c \in Calls :
        HttpFailure(c) =>
            /\ calls[c].rd = NewReader /\ calls[c].chunksRead = 0
            /\ calls[c].readEnd \in {"none", "text"}
            /\ calls[c].pc \in {"errbody", "done"}
            /\ calls[c].readEnd = "text" =>
                  /\ Resolved(c)
                  /\ \A e \in HttpErrorBodies :
                        calls[c].body = e.body =>
                            calls[c].response =
                                Failed(M_http \o calls[c].res.status \o <<":", " ">> \o e.m)

\* the error whose structured message is blank has been answered with its
\* body text
C13_Witness ==
    \E c \in Calls :
        /\ HttpFailure(c) /\ calls[c].readEnd = "text"
        /\ calls[c].body = ErrorBody(<<" ">>)
        /\ calls[c].response = Failed(M_http \o Text_500 \o <<":", " ">> \o ErrorBody(<<" ">>))

\* the token begins with the scheme: the letters of "Bearer" in either case,
\* then whitespace
SchemePrefixed(t) ==
    /\ Len(t) > Len(S_Bearer)
    /\ ToLower(SubSeq(t, 1, Len(S_Bearer) - 1)) = ToLower(SubSeq(S_Bearer, 1, Len(S_Bearer) - 1))
    /\ t[Len(S_Bearer)] \in WhiteSpace

\* the call has built the request it gives to fetch
RequestBuilt(c) == calls[c].request # NoRequest

\* C14: the Authorization header of the request is the configured token as
\* it is when the token begins with "Bearer" (in either case) followed by
\* whitespace, and "Bearer " followed by the token otherwise.
C14_AuthorizationHeader ==
    \A c \in Calls :
        RequestBuilt(c) =>
            calls[c].request.authorization =
                JStr(IF SchemePrefixed(config.token) THEN config.token
                     ELSE S_Bearer \o config.token)

\* the registry holds the call's controller under the call's requestId
OwnEntry(c) == <<calls[c].requestId, c>> \in inflightChats

\* C15: with the ids in flight kept distinct, a call in flight that was not
\* cancelled has its own entry in inflightChats at every moment from its
\* dispatch on; and a step that changes one call (its cancellation, its
\* completion, its failure, any step of its handler) leaves every other call
\* as it is (controller not aborted, response unchanged) and leaves
\* every other call's entry in inflightChats.
C15_CallsIsolated ==
    /\ [](\A c \in Calls : InFlight(c) /\ ~calls[c].aborted => OwnEntry(c))
    /\ [][\A c, d \in Calls :
            c # d /\ calls'[d] # calls[d] =>
                /\ calls'[c] = calls[c]
                /\ OwnEntry(c) => <<calls[c].requestId, c>> \in inflightChats']_vars

\* one call was cancelled and has resolved while another, dispatched before
\* that and not cancelled, is reading its body with its entry in place
C15_Witness ==
    \E c, d \in Calls :
        /\ c < d
        /\ Resolved(d) /\ calls[d].response = Cancelled
        /\ calls[c].pc = "read" /\ ~calls[c].aborted /\ OwnEntry(c)

\* C16: with every pending operation of the handler (loadConfig, a fetch, a
\* retry delay, a read of the body) eventually settling, a call in flight
\* eventually resolves with one response of the three shapes and
\* inflightChats holds its controller no longer; and a call in flight always
\* has a pending operation whose settling moves it on.
C16_EventuallyResolves ==
    /\ [](InFlight(1) => ReadPending \/ ENABLED <<Settle>>_vars)
    /\ InFlight(1) ~> (/\ Resolved(1)
                        /\ calls[1].responses = 1 /\ WellFormed(calls[1].response)
                        /\ \A e \in inflightChats : e[2] # 1)

\* a call has resolved after two failed attempts, their delays and the
\* read of a body, and the registry is empty
C16_Witness ==
    /\ Resolved(1)
    /\ Len(calls[1].delays) = 2
    /\ calls[1].readEnd = "return"
    /\ inflightChats = {}

\* a call cancelled during a retry delay has resolved
C16_WitnessCancelled ==
    Resolved(1) /\ calls[1].cancelledAt = "sleep" /\ inflightChats = {}

\* C17: the k-th delay of a fetchWithRetry call, the one between the failure
\* of attempt k and the start of attempt k + 1, is retryDelayMs * k; there is
\* no delay before the first attempt, exactly one before every later
\* attempt, and none after the failure of the last attempt the budget allows.
C17_LinearBackoff ==
    \A c \in Calls :
        LET call == calls[c]
            n == Len(call.delays)
        IN  /\ \A k \in 1..n : call.delays[k] = call.retryDelayMs * k
            /\ call.fetches = 0 => n = 0
            /\ call.pc = "sleep" => n = call.fetches /\ n = Len(call.failures)
            /\ call.pc # "sleep" /\ call.fetches >= 1 => n = call.fetches - 1
            /\ Len(call.failures) = call.retries + 1 => Resolved(c) /\ n = call.retries

\* with a budget of two retries and a base of 100 ms three attempts have
\* failed, after delays of 100 and 200 ms, and the failure was raised
C17_Witness ==
    \E c \in Calls :
        /\ Resolved(c)
        /\ calls[c].retries = 2
        /\ Len(calls[c].failures) = 3
        /\ calls[c].delays = <<100, 200>>
        /\ ~calls[c].response.ok /\ ~calls[c].response.cancelled

\* C18: a call cancelled while an attempt is pending makes no further
\* attempt and takes no delay, whatever budget remains, and resolves
\* Cancelled; a call cancelled during a retry delay takes no further delay,
\* receives no response, and resolves Cancelled on the attempt that follows
\* the delay.
C18_CancelStopsRetries ==
    \A c \in Calls :
        LET call == calls[c]
        IN  /\ call.cancelledAt = "fetch" =>
                  /\ call.pc \in {"fetch", "done"}
                  /\ call.fetches = Len(call.failures) + 1
                  /\ Len(call.delays) = Len(call.failures)
                  /\ call.res = NoRes
                  /\ Resolved(c) => call.response = Cancelled
            /\ call.cancelledAt = "sleep" =>
                  /\ call.pc \in {"sleep", "done"}
                  /\ Len(call.delays) = Len(call.failures)
                  /\ call.res = NoRes
                  /\ call.pc = "sleep" => call.fetches = Len(call.failures)
                  /\ Resolved(c) => /\ call.response = Cancelled
                                     /\ call.fetches = Len(call.failures) + 1

\* a call with a budget of two retries was cancelled during its second
\* attempt, one retry left, and has resolved
C18_Witness ==
    \E c \in Calls :
        /\ calls[c].cancelledAt = "fetch"
        /\ calls[c].retries = 2 /\ Len(calls[c].failures) = 1
        /\ Resolved(c) /\ calls[c].response = Cancelled

\* a call was cancelled during its first retry delay and has resolved
C18_WitnessSleep ==
    \E c \in Calls :
        /\ calls[c].cancelledAt = "sleep"
        /\ calls[c].retries = 2 /\ Len(calls[c].failures) = 1
        /\ Resolved(c) /\ calls[c].response = Cancelled

\* the first chunk, leading whitespace aside, starts with "{" or "["
Opener(chunk) ==
    LET ink == {i \in 1..Len(chunk) : chunk[i] \notin WhiteSpace}
    IN  ink # {} /\ chunk[CHOOSE i \in ink : \A j \in ink : i <= j] \in {"{", "["}

\* the first chunk starts, leading whitespace aside, with one of the field
\* prefixes "data:", "event:", ":", or one of its lines begins with one
Signal(chunk) ==
    \E prefix \in {S_data, S_event, S_colon} :
        \/ StartsWith(TrimStart(chunk), prefix)
        \/ \E i \in 1..Len(chunk) :
              chunk[i] = "\n" /\ StartsWith(SubSeq(chunk, i + 1, Len(chunk)), prefix)

\* the call's readResponseText has classified its first chunk
Classified(c) == calls[c].rd.mode # "first" /\ calls[c].rd.normalizedFirst # <<>>

\* C19: a first chunk that, leading whitespace aside, starts with "{" or "["
\* is read in the whole-document mode even when it holds lines starting with
\* "data:" or "event:"; so is a first chunk with neither such an opener nor
\* an event-stream signal.
C19_JsonOpenerWins ==
    \A c \in Calls :
        Classified(c) =>
            /\ Opener(calls[c].rd.normalizedFirst) => calls[c].rd.mode = "json"
            /\ ~Opener(calls[c].rd.normalizedFirst) /\ ~Signal(calls[c].rd.normalizedFirst)
                    => calls[c].rd.mode = "json"
            /\ calls[c].rd.mode = "json" /\ Resolved(c) =>
                    calls[c].response \in {OkResponse(extractResponseText(JsonParse(calls[c].body).val)),
                                            Failed(M_invalid_json)}

\* a first chunk with an opener and a data line after it was read in the
\* whole-document mode
C19_Witness ==
    \E c \in Calls :
        /\ Classified(c)
        /\ calls[c].rd.normalizedFirst = BraceThenData
        /\ Includes(calls[c].rd.normalizedFirst, S_nl_data)
        /\ calls[c].rd.mode = "json"
        /\ calls[c].response = Failed(M_invalid_json)

\* C20: a first chunk without a JSON opener that starts with "data:",
\* "event:" or ":" or holds a line beginning with one of the three (a
\* comment line that is not the first line included) is read as an event
\* stream.
C20_SignalMeansEventStream ==
    \A c \in Calls :
        Classified(c) /\ ~Opener(calls[c].rd.normalizedFirst)
                      /\ Signal(calls[c].rd.normalizedFirst) =>
            calls[c].rd.mode = "sse"

\* the drained accumulator holds no usable text: no incremental chunk, no
\* done-text, no text in the final envelope
NoUsableText(acc) ==
    acc.textChunks = <<>> /\ acc.doneText = <<>> /\ EnvelopeText(acc) = <<>>

\* what the CHAT handler answers when the whole body is parsed as one JSON
\* document
WholeDocumentResponse(body) ==
    LET step == JsonParsed(NewReader, JsonParse(body))
    IN  IF step.kind = "return" THEN OkResponse(step.val) ELSE CatchResponse(step.err)

\* C21: when a body read as an event stream yields no usable text, the
\* reader parses the complete body as one JSON document and the call is
\* answered with what that gives.
C21_EmptyStreamFallsBackToJson ==
    \A c \in Calls :
        SseReturned(c) /\ NoUsableText(calls[c].rd.acc) =>
            calls[c].response = WholeDocumentResponse(calls[c].body)

\* the call's body, of a successful response, was read in the whole-document
\* mode to its end
ReadAsDocument(c) ==
    /\ Resolved(c) /\ calls[c].res.ok /\ calls[c].res.hasBody
    /\ calls[c].rd.mode = "json"
    /\ calls[c].readEnd # "none"

\* C22: a successful response whose body is read in the whole-document mode
\* and is no JSON document (malformed, cut off, or empty) resolves Failed
\* with "Invalid JSON response from API.", in one response sent from the
\* handler's catch block; it does not resolve Ok.
C22_UnparseableDocumentFails ==
    \A c \in Calls :
        ReadAsDocument(c) /\ ~JsonParse(calls[c].body).ok =>
            /\ calls[c].readEnd = "throw"
            /\ calls[c].responses = 1
            /\ calls[c].response = Failed(M_invalid_json)

\* the document cut off before its end, read in two chunks, has resolved
\* Failed
C22_Witness ==
    \E c \in Calls :
        /\ ReadAsDocument(c)
        /\ calls[c].body = TruncatedDocument
        /\ calls[c].chunksRead = 2
        /\ calls[c].response = Failed(M_invalid_json)

\* the empty body has resolved Failed
C22_WitnessEmpty ==
    \E c \in Calls :
        ReadAsDocument(c) /\ calls[c].body = <<>> /\ calls[c].response = Failed(M_invalid_json)

\* the call's body is being, or was, decoded by readSseTextStream, which has
\* not thrown
Decoding(c) == calls[c].rd.mode = "sse" /\ ~calls[c].rd.acc.thrown

\* the accumulator of the call at a block boundary: nothing buffered
AtBoundary(c) == [calls[c].rd.acc EXCEPT !.buffer = <<>>]

\* blocks that follow an ignored one in the checks below
LaterBlocks ==
    {Block(JsonText(ChatDeltaPayload(Text_lo))), Block(Text_hello)}

\* C23: flushing a block that has no data line, or whose joined payload is
\* empty or the [DONE] sentinel, leaves the accumulator (chunks, done-text,
\* final envelope, and the rest) as it was, and does not end the decoding: a
\* block that follows it is processed as if the ignored block were not there.
C23_InertBlockIgnored ==
    \A c \in Calls :
        Decoding(c) =>
            \A block \in InertBlocks :
                /\ flushEventBlock(calls[c].rd.acc, block) = calls[c].rd.acc
                /\ \A later \in LaterBlocks :
                        SseChunk(AtBoundary(c), Terminated(block) \o Terminated(later))
                            = SseChunk(AtBoundary(c), Terminated(later))

\* the stream that opens with the sentinel, a comment and an empty payload,
\* read in two chunks, has resolved with the text of the delta after them
C23_Witness ==
    \E c \in Calls :
        /\ Resolved(c) /\ Decoding(c) /\ calls[c].chunksRead = 2
        /\ calls[c].body = Terminated(Block(S_DONE)) \o Terminated(Text_ping)
                                \o Terminated(S_data) \o Event(ChatDeltaPayload(Text_Hi))
        /\ calls[c].rd.acc.textChunks = <<Text_Hi>>
        /\ calls[c].response = Ok(Text_Hi)

\* C24: flushing a block whose payload is neither empty nor [DONE] and is
\* rejected by JSON.parse appends the raw payload as one chunk after the
\* chunks already there and changes nothing else; the decoding goes on, so a
\* delta that follows is appended after it, and the call, once its stream is
\* read to the end, resolves Ok.
C24_RawPayloadIsChunk ==
    \A c \in Calls :
        Decoding(c) =>
            /\ \A raw \in RawBlocks :
                /\ flushEventBlock(calls[c].rd.acc, raw.block)
                        = [calls[c].rd.acc EXCEPT !.textChunks = Append(@, raw.payload)]
                /\ SseChunk(AtBoundary(c),
                            Terminated(raw.block) \o Event(ChatDeltaPayload(Text_lo))).textChunks
                        = calls[c].rd.acc.textChunks \o <<raw.payload, Text_lo>>
            /\ Resolved(c) => calls[c].response.ok

\* the stream with the payload "hello" between two deltas, read in two
\* chunks, has resolved Ok with the three texts in stream order
C24_Witness ==
    \E c \in Calls :
        /\ Resolved(c) /\ Decoding(c) /\ calls[c].chunksRead = 2
        /\ calls[c].body = Event(ChatDeltaPayload(Text_Hi)) \o Terminated(Block(Text_hello))
                                \o Event(ChatDeltaPayload(Text_lo))
        /\ calls[c].rd.acc.textChunks = <<Text_Hi, Text_hello, Text_lo>>
        /\ calls[c].response = Ok(Text_Hi \o Text_hello \o Text_lo)

\* the envelopes the events of the checks below carry
Envelopes == {Envelope(Text_Hi), Envelope(Text_a)}

\* C25: flushing a completed event that carries an envelope sets the final
\* envelope to it and changes nothing else, the chunks included; an event of
\* another kind that carries an envelope (a created event, a delta event)
\* sets the final envelope as well; of two envelope-carrying events the later
\* one's envelope is the final one, and an event without an envelope
\* leaves it. A stream whose delta and whose completed envelope hold the
\* same text resolves with that text once.
C25_CompletedReplacesEnvelope ==
    \A c \in Calls :
        Decoding(c) =>
            /\ \A env \in Envelopes :
                /\ flushEventBlock(calls[c].rd.acc, Block(JsonText(CompletedPayload(env))))
                        = [calls[c].rd.acc EXCEPT !.completedResponse = env]
                /\ flushEventBlock(calls[c].rd.acc, Block(JsonText(DeltaWithEnvelope(Text_b, env))))
                        = [calls[c].rd.acc EXCEPT !.completedResponse = env,
                                                  !.textChunks = Append(@, Text_b)]
                /\ SseChunk(AtBoundary(c),
                            Event(CreatedPayload(Envelope(Text_b)))
                                \o Event(CompletedPayload(env))).completedResponse = env
                /\ SseChunk(AtBoundary(c),
                            Event(CompletedPayload(Envelope(Text_b)))
                                \o Event(CreatedPayload(env))).completedResponse = env
                /\ SseChunk(AtBoundary(c),
                            Event(CompletedPayload(env))
                                \o Event(ChatDeltaPayload(Text_lo))).completedResponse = env
            /\ /\ Resolved(c)
               /\ calls[c].body = Event(DeltaPayload(Text_Hi))
                                        \o Event(CompletedPayload(Envelope(Text_Hi)))
               => calls[c].response = Ok(Text_Hi)

\* the stream of a delta and a completed envelope with the same text, read
\* in two chunks, has resolved with the text once, the envelope recorded
C25_Witness ==
    \E c \in Calls :
        /\ Resolved(c) /\ Decoding(c) /\ calls[c].chunksRead = 2
        /\ calls[c].body = Event(DeltaPayload(Text_Hi)) \o Event(CompletedPayload(Envelope(Text_Hi)))
        /\ calls[c].rd.acc.textChunks = <<Text_Hi>>
        /\ calls[c].rd.acc.completedResponse = Envelope(Text_Hi)
        /\ calls[c].response = Ok(Text_Hi)

\* the stream of a completed event and a later created event has resolved
\* with the text of the later envelope
C25_WitnessLater ==
    \E c \in Calls :
        /\ Resolved(c) /\ Decoding(c)
        /\ calls[c].body = Event(CompletedPayload(Envelope(Text_Hi)))
                                \o Event(CreatedPayload(Envelope(Text_a)))
        /\ calls[c].rd.acc.completedResponse = Envelope(Text_a)
        /\ calls[c].response = Ok(Text_a)

\* what readSseTextStream ends with, from the accumulator after the last flush
DecoderResult(last) ==
    IF last.thrown THEN [thrown |-> TRUE, text |-> last.err.message]
    ELSE [thrown |-> FALSE, text |-> ResolveText(last)]

\* C26: at any point of the decoding, if the source ends there, the buffered
\* rest is flushed as one last block: the decoder ends as it would had the
\* source delivered a block terminator first. So a stream whose last event
\* lacks its terminator resolves with the text of that event included (or
\* with its error, for an error event).
C26_UnterminatedTailFlushed ==
    \A c \in Calls :
        Decoding(c) =>
            /\ calls[c].pc = "read" =>
                    DecoderResult(SseTail(calls[c].rd.acc))
                        = DecoderResult(SseTail(SseChunk(calls[c].rd.acc, <<"\n", "\n">>)))
            /\ /\ Resolved(c)
               /\ calls[c].body = Event(ChatDeltaPayload(Text_Hi)) \o Block(Text_hello)
               => calls[c].response = Ok(Text_Hi \o Text_hello)
            /\ /\ Resolved(c)
               /\ calls[c].body = Event(ChatDeltaPayload(Text_Hi))
                                        \o Block(JsonText(DonePayload(Text_hello))) \o <<"\n">>
               => calls[c].response = Ok(Text_hello)

\* the stream ending in the unterminated block "data: hello", read in two
\* chunks, has resolved with the text of that block included
C26_Witness ==
    \E c \in Calls :
        /\ Resolved(c) /\ Decoding(c) /\ calls[c].chunksRead = 2
        /\ calls[c].body = Event(ChatDeltaPayload(Text_Hi)) \o Block(Text_hello)
        /\ calls[c].rd.acc.buffer = Block(Text_hello)
        /\ calls[c].response = Ok(Text_Hi \o Text_hello)

\* a decoder with an unterminated rest in its buffer awaits its next read
C26_WitnessPending ==
    \E c \in Calls :
        /\ calls[c].pc = "read" /\ Decoding(c)
        /\ Trim(calls[c].rd.acc.buffer) # <<>>
        /\ calls[c].rd.acc.textChunks # <<>>

\* the call was cancelled while readSseTextStream was decoding its body
CancelledDecoding(c) == calls[c].aborted /\ calls[c].cancelledAt = "sse"

\* C27: once a call is cancelled while its body is decoded, no further chunk
\* is read and the accumulator stays as it was at the cancel; the call
\* resolves Cancelled, with one response, never Ok with the text gathered
\* before the cancel.
C27_CancelStopsDecoding ==
    /\ [](\A c \in Calls :
            CancelledDecoding(c) =>
                /\ ~calls[c].response.ok
                /\ Resolved(c) => calls[c].response = Cancelled /\ calls[c].responses = 1)
    /\ [][\A c \in Calls :
            CancelledDecoding(c) =>
                /\ calls'[c].rd = calls[c].rd
                /\ calls'[c].chunksRead = calls[c].chunksRead
                /\ calls'[c].res.body = calls[c].res.body]_vars

\* a call cancelled after its decoder had gathered text from a first chunk,
\* with more of the body to come, has resolved Cancelled
C27_Witness ==
    \E c \in Calls :
        /\ CancelledDecoding(c) /\ Resolved(c)
        /\ calls[c].chunksRead = 1
        /\ calls[c].rd.acc.textChunks # <<>>
        /\ calls[c].res.body # <<>>
        /\ calls[c].response = Cancelled

\* the concatenation of the incremental chunks of the call's decoder
StreamedText(c) == JoinWith(calls[c].rd.acc.textChunks, <<>>)

Sharing == {c \in Calls : InFlight(c) /\ calls[c].requestId = Text_a}

\* the call of Sharing that registered last (calls start in their order)
Latest == CHOOSE c \in Sharing : \A d \in Sharing : d <= c

\* call c ends in this step
Ends(c) == InFlight(c) /\ calls'[c].pc = "done"

\* C29 as stated: with two calls in flight under one requestId, the
\* registration of the later one leaves one entry for the id, with the later
\* call's controller; a CANCEL_CHAT for the id that finds that entry aborts
\* the later call and not the earlier; and the end of the earlier call
\* leaves the later call's entry in inflightChats.
C29_LaterCallKeepsEntry ==
    /\ [][\A c \in Calls :
            Chat(c, JStr(Text_a), FALSE) /\ Sharing # {} =>
                {e \in inflightChats' : e[1] = Text_a} = {<<Text_a, c>>}]_vars
    /\ [][\A c \in Calls :
            /\ CancelChat(JStr(Text_a))
            /\ <<Text_a, c>> \in inflightChats
            => /\ calls'[c].aborted
               /\ \A d \in Calls \ {c} : calls'[d].aborted = calls[d].aborted]_vars
    /\ [][\A c, d \in Calls :
            Ends(c) /\ c # d /\ <<Text_a, d>> \in inflightChats =>
                <<Text_a, d>> \in inflightChats']_vars


\* C29: with two calls in flight under one requestId, the registration of
\* the later one leaves one entry for the id, with the later call's
\* controller, and a CANCEL_CHAT for the id that finds that entry aborts the
\* later call and not the earlier. The end of any call deletes the entry of
\* its requestId, whoever registered it: once the earlier call has ended
\* the later call has no entry, and a CANCEL_CHAT for the id aborts nothing
\* and replies aborted: false.
C29_EarlierCallRetiresEntry ==
    /\ [][\A c \in Calls :
            Chat(c, JStr(Text_a), FALSE) /\ Sharing # {} =>
                {e \in inflightChats' : e[1] = Text_a} = {<<Text_a, c>>}]_vars
    /\ [][\A c \in Calls :
            /\ CancelChat(JStr(Text_a))
            /\ <<Text_a, c>> \in inflightChats
            => /\ calls'[c].aborted
               /\ \A d \in Calls \ {c} : calls'[d].aborted = calls[d].aborted]_vars
    /\ [][\A c \in Calls : Ends(c) => ~MapHas(inflightChats', calls[c].requestId)]_vars
    /\ [][CancelChat(JStr(Text_a)) /\ ~MapHas(inflightChats, Text_a) =>
            /\ cancelReply' = CancelReply(FALSE)
            /\ \A d \in Calls : calls'[d].aborted = calls[d].aborted]_vars

\* the earlier of two calls under one requestId has ended and taken the
\* later call's entry with it: the later call is in flight without an
\* entry, and a CANCEL_CHAT for the id found nothing to abort
C29_Witness ==
    \E c, d \in Calls :
        /\ c < d
        /\ Resolved(c) /\ ~calls[c].aborted
        /\ InFlight(d) /\ calls[d].requestId = calls[c].requestId
        /\ ~MapHas(inflightChats, calls[d].requestId)
        /\ calls[d].removals = 1
        /\ ~calls[d].aborted
        /\ cancelReply = CancelReply(FALSE)

\* with two calls in flight under one requestId, a CANCEL_CHAT has aborted
\* the later one and left the earlier one running
C29_WitnessCancel ==
    \E c, d \in Calls :
        /\ c < d
        /\ InFlight(c) /\ ~calls[c].aborted
        /\ calls[d].aborted /\ calls[d].requestId = calls[c].requestId
        /\ cancelReply = CancelReply(TRUE)

S_https_slashes == <<"h", "t", "t", "p", "s", ":", "/", "/">>

\* C30: whatever saveConfig calls were made, loadConfig returns an apiUrl
\* that starts with "https://"; after a save that carries a string it is
\* the serialised URL when the string parses as an https URL, and
\* DEFAULT_API_URL when it is empty, blank, unparseable or of another
\* scheme; after a save that carries no string it is what it was. The CHAT
\* handler sends its request, and the Authorization header with it, to an
\* https URL only.
C30_ApiUrlAlwaysHttps ==
    /\ [](/\ StartsWith(loadConfig(config).apiUrl, S_https_slashes)
          /\ \A c \in Calls :
                calls[c].fetches > 0 =>
                    /\ StartsWith(calls[c].request.url, S_https_slashes)
                    /\ calls[c].request.url
                            \in {in.loaded : in \in ApiUrlStrings} \cup {DEFAULT_API_URL})
    /\ [][\A nextConfig \in NextConfigs :
            SaveConfig(nextConfig) =>
                /\ \A in \in ApiUrlStrings :
                        nextConfig.apiUrl = in.value => loadConfig(config').apiUrl = in.loaded
                /\ nextConfig.apiUrl \in ApiUrlOthers =>
                        loadConfig(config').apiUrl = loadConfig(config).apiUrl]_vars

\* after saves, the last of them with the apiUrl "http://api.test/v1", a call
\* has sent its request with the token to DEFAULT_API_URL
C30_Witness ==
    \E c \in Calls :
        /\ config.apiUrl = JStr(DEFAULT_API_URL)
        /\ calls[c].fetches > 0
        /\ calls[c].request.url = DEFAULT_API_URL
        /\ calls[c].request.authorization = JStr(S_Bearer \o Text_sk)

\* after a save with the apiUrl "HTTPS://API.test/v1" a call has sent its
\* request to the serialised https URL
C30_WitnessCustom ==
    \E c \in Calls :
        /\ calls[c].fetches > 0
        /\ calls[c].request.url = <<"h", "t", "t", "p", "s", ":", "/", "/", "a", "p", "i", ".", "t", "e", "s", "t", "/", "v", "1">>

\* the non-blank strings among the ids the CHAT messages carry
NonBlankIds == {rid \in ChatIds : rid.t = "string" /\ Trim(rid.v) # <<>>}

\* C31: a CANCEL_CHAT that carries the very string a call in flight was
\* submitted with, leading or trailing whitespace included, finds the call's
\* entry: it aborts the call and replies aborted: true.
C31_CancelFindsSuppliedId ==
    [][\A rid \in NonBlankIds, c \in Calls :
            /\ InFlight(c)
            /\ calls[c].requestId = ChatKey(rid, c)
            /\ <<calls[c].requestId, c>> \in inflightChats
            /\ CancelChat(rid)
            => /\ cancelReply' = CancelReply(TRUE)
               /\ calls'[c].aborted]_vars

\* fetch has resolved with a response for the call
Responded(c) == calls[c].res # NoRes

\* C32: fetchWithRetry makes a further attempt only after an attempt that
\* was rejected at transport level; once fetch has resolved with a response,
\* of whatever status, that response is the one the handler works on and no
\* further fetch is made: the call made one attempt after its last
\* transport failure, however much of its budget is left.
C32_NoRetryOnStatus ==
    /\ [](\A c \in Calls :
            Responded(c) =>
                /\ calls[c].fetches = Len(calls[c].failures) + 1
                /\ calls[c].pc \notin {"fetch", "sleep"})
    /\ [][\A c \in Calls :
            /\ Responded(c) =>
                    /\ calls'[c].fetches = calls[c].fetches
                    /\ calls'[c].failures = calls[c].failures
                    /\ calls'[c].res.status = calls[c].res.status
            /\ calls[c].fetches > 0 /\ calls'[c].fetches > calls[c].fetches =>
                    /\ ~Responded(c)
                    /\ Len(calls[c].failures) = calls[c].fetches]_vars

\* a call with a budget of two retries met one transport failure, then a
\* response of status 500, and resolved Failed after two attempts
C32_Witness ==
    \E c \in Calls :
        /\ HttpFailure(c) /\ Resolved(c)
        /\ calls[c].retries = 2
        /\ Len(calls[c].failures) = 1
        /\ calls[c].fetches = 2
        /\ ~calls[c].response.ok /\ ~calls[c].response.cancelled
        /\ StartsWith(calls[c].response.error, M_http)

\* C33: when the loaded configuration has an empty token, the call resolves
\* Failed with "Missing API token. Set it in Options.", in one response,
\* without any fetch and without a request built, and the entry registered
\* for it is removed (once) when it resolves. A loaded configuration
\* never has an empty model (loadConfig puts DEFAULT_MODEL for an absent or
\* blank one), so no call ends with the message for a missing model.
C33_MissingTokenFailsUnsent ==
    /\ loadConfig(config).model # <<>>
    /\ \A c \in Calls :
        /\ calls[c].response # Failed(M_missing_model)
        /\ loadConfig(config).token = <<>> =>
            /\ calls[c].fetches = 0
            /\ calls[c].request = NoRequest
            /\ calls[c].pc \in {"idle", "config", "done"}
            /\ Resolved(c) =>
                /\ calls[c].response = Failed(M_missing_token)
                /\ calls[c].responses = 1
                /\ calls[c].removals = 1
                /\ ~MapHas(inflightChats, calls[c].requestId)

\* a call under an empty token, not cancelled, has resolved Failed without a
\* fetch, its entry removed
C33_Witness ==
    \E c \in Calls :
        /\ loadConfig(config).token = <<>>
        /\ Resolved(c) /\ ~calls[c].aborted
        /\ calls[c].response = Failed(M_missing_token)
        /\ calls[c].fetches = 0
        /\ calls[c].removals = 1
        /\ inflightChats = {}

\* a call under a saved model of one space has sent its request
C33_WitnessBlankModel ==
    \E c \in Calls :
        /\ config.model = JStr(<<" ">>)
        /\ loadConfig(config).model = DEFAULT_MODEL
        /\ calls[c].fetches > 0

\* the last n elements of a sequence, or all of it when it has fewer
MostRecent(seq, n) ==
    [i \in 1..(IF Len(seq) < n THEN Len(seq) ELSE n) |->
        seq[i + (IF Len(seq) < n THEN 0 ELSE Len(seq) - n)]]

\* no onCancel has removed a message from chatHistory
OnlyAppends ==
    \A r \in Prompts : panel.cancels[r].pc \in {"idle", "cancelChatApi"}

\* C34: whenever the panel has appended messages, trimmed and called
\* saveChatHistory, chatHistory and the saved history hold at most
\* MAX_MESSAGES messages and are, in their order, the most recent of all the
\* messages appended; trimChatHistory leaves an array of at most MAX_MESSAGES
\* messages as it is, and trimming twice is trimming once.
C34_HistoryIsMostRecent ==
    /\ Len(panel.chatHistory) <= MAX_MESSAGES
    /\ Len(panel.persisted) <= MAX_MESSAGES
    /\ OnlyAppends =>
         /\ panel.chatHistory = MostRecent(panel.pushed, MAX_MESSAGES)
         /\ panel.persisted = MostRecent(panel.pushed, MAX_MESSAGES)
    /\ trimChatHistory(panel.chatHistory) = panel.chatHistory
    /\ Len(panel.pushed) <= MAX_MESSAGES => trimChatHistory(panel.pushed) = panel.pushed
    /\ trimChatHistory(trimChatHistory(panel.pushed)) = trimChatHistory(panel.pushed)

\* a reply was appended and saved, and older messages were dropped
C34_Witness ==
    /\ OnlyAppends
    /\ Len(panel.pushed) > MAX_MESSAGES
    /\ \E p \in Prompts :
         /\ panel.prompts[p].pc = "done"
         /\ panel.chatHistory[Len(panel.chatHistory)] = AssistantMessage(p)
         /\ panel.persisted = panel.chatHistory

\* the whole history appended so far still fits
C34_WitnessWithinLimit ==
    /\ OnlyAppends
    /\ Len(panel.pushed) = MAX_MESSAGES
    /\ panel.pushed # LoadedHistory(MAX_MESSAGES)
    /\ panel.persisted = panel.pushed

\* the CHAT message of p was sent, and p is neither resolved nor cancelled
Unresolved(p) ==
    /\ panel.prompts[p].pc = "callChatApi"
    /\ panel.cancels[p].pc = "idle"

\* C35: at most one request of the panel is pending (sent, unresolved and
\* uncancelled) at any time, and once a request has resolved and no cancel of
\* it is under way its pending bubble no longer shows "Thinking...".
C35_OneRequestPending ==
    /\ \A p, q \in Prompts : Unresolved(p) /\ Unresolved(q) => p = q
    /\ \A p \in Prompts :
         panel.prompts[p].pc = "done" /\ panel.cancels[p].pc \in {"idle", "done"}
            => panel.bubbles[p] # "thinking"

\* the messages of a history
Messages(history) == {history[i] : i \in DOMAIN history}

\* where a message was appended
Position(m) == CHOOSE i \in DOMAIN panel.pushed : panel.pushed[i] = m

\* C36: once onCancel has run for a request R, the user message of R is in
\* neither chatHistory nor the saved history; from the moment of the cancel no
\* reply to R is in chatHistory; and the messages of chatHistory stand in the
\* order they were appended in.
C36_CancelledRequestRemoved ==
    /\ \A r \in Prompts :
         panel.cancels[r].pc = "done"
            => /\ UserMessage(r) \notin Messages(panel.chatHistory)
               /\ UserMessage(r) \notin Messages(panel.persisted)
    /\ \A r \in Prompts :
         panel.cancels[r].pc # "idle"
            => AssistantMessage(r) \notin Messages(panel.chatHistory)
    /\ \A i, j \in DOMAIN panel.chatHistory :
         i < j => Position(panel.chatHistory[i]) < Position(panel.chatHistory[j])

====
